---- MODULE Spec2Model ----
(***************************************************************************)
(* Model of the hermes market bot: the scanner main loop and scan()         *)
(* (src/src/scanner.py), the MarketWorker pool (src/src/market.py), the    *)
(* backlog query Storage.get_old_items (src/src/async_db.py) and the order *)
(* reconciliation Orders.set_buy_orders / Orders.cancel_sell_listings      *)
(* (src/src/utils.py, called by hermes.py), the filter get_filtered_items  *)
(* with the Skin methods (src/src/utils.py) and the pricing engine         *)
(* Storage.risky_prices (src/src/async_db.py).                             *)
(*                                                                         *)
(* Scheduling.  Everything runs on one asyncio event loop, so a coroutine  *)
(* is only left at an await.  An action below is the code between two      *)
(* awaits of one coroutine.  Code that runs without an await (the dealing  *)
(* loop of scan(), redistribute_items, time.sleep) holds the thread: while *)
(* a coroutine is at such a place no other coroutine takes a step.         *)
(* The awaits on log_async are folded into the step that follows them.     *)
(***************************************************************************)
EXTENDS Integers, Sequences, FiniteSets, TLC

\* ---------------------------------------------------------------- bounds
MaxItems   == 2      \* rows of the prices table
MaxProxies == 2      \* lines of proxies.txt
MaxRounds  == 2      \* iterations of the scanner's while True loop
MaxRaises  == 1      \* storage failures raised inside workers
MaxFails   == 1      \* scans that end with a non-success result
MaxDelay   == 1      \* largest value of settings.delay
MaxReg     == 2      \* length of MarketWorker.workers in SpecRedist
MaxQueue   == 2      \* length of a worker's queue in SpecRedist
MaxSkins   == 2      \* length of the profitable set
MaxOrders  == 2      \* live buy orders
MaxListings == 2     \* live sell listings

\* ------------------------------------------------------ program constants
CooldownFactor == 25     \* rest = 25 * self.delay
TopUpTarget    == 100    \* if len(items) < 100 ... LIMIT 100 - len(items)
DefaultDelay   == 12     \* MarketWorker.__init__(..., delay: int = 12, ...)
SUCCESS        == 200    \* {"success": 200}
REST_NEEDED    == 429    \* {"success": 429, ...}
MinPercentBelow  == 1    \* max(round(skin.percent_below_market, 2), 0.01), in hundredths
QuantityFactor   == 9    \* int(9 * percent_below)
QuantityCapPrice == 100  \* if skin.buy_price > 100
QuantityCap      == 2    \* quantity = min(quantity, 2)
CreatePause      == 5    \* time.sleep(5) before create_buy_order
CleanupPause     == 3    \* time.sleep(3) after a cancel of the cleanup
SellPause        == 10   \* time.sleep(10) after cancel_sell_order

Items   == 1..MaxItems
Delays  == 0..MaxDelay
Rounds  == 1..MaxRounds
\* a MarketWorker object: the round that created it and its index in scan()'s
\* local list `workers` (its proxy is proxies[index])
W       == Rounds \X (1..MaxProxies)
NoItem  == MaxItems + 1
Ages    == {"fresh", "hour", "stale"}

VARIABLES
    proxies,            \* number of proxies load_config() returned
    settings_delay,     \* column delay of the account's row of table settings
    age,                \* prices.ts of each row, relative to NOW()
    mpc,                \* position of the scanner's main thread
    round,              \* number of scan() calls started
    links,              \* scan(): local list links
    backlog,            \* scan(): the list get_old_items returned
    nworkers,           \* scan(): len(workers)
    pc,                 \* position of each worker's start_working
    tasks,              \* MarketWorker.tasks
    delay,              \* MarketWorker.delay
    is_active,          \* MarketWorker.is_active
    exits,              \* start_working: local exits
    item,               \* start_working: local item
    result,             \* start_working: local result["success"]
    rest,               \* start_working: local rest
    i,                  \* start_working: loop index of the running pause
    slept,              \* sleeps of one second completed since the last result
    cls_workers,        \* class attribute MarketWorker.workers
    is_redistributing,  \* class attribute MarketWorker.is_redistributing
    raises,             \* storage failures raised so far
    fails,              \* non-success scan results so far
    filtered_items,     \* set_buy_orders: the list get_filtered_items returned
    buy_orders,         \* Orders.buy_orders
    sell_listings,      \* Orders.sell_listings
    low_percent,        \* settings.low_percent, in hundredths
    high_percent,       \* settings.high_percent, in hundredths
    cancel_percent,     \* settings.cancel_sell_listing_percent, in hundredths
    opc,                \* position of the reconciliation (hermes.py main thread)
    idx,                \* index of the running for loop of the reconciliation
    calls,              \* marketplace calls and time.sleep calls made, in order
    qskin,              \* set_buy_orders: the skin of the running iteration
    quantity,           \* set_buy_orders: local quantity
    snapshot,           \* risky_prices: the arguments of the call
    prices,             \* risky_prices: the outcome of the call
    queue,              \* get_filtered_items: local queue
    filter_result,      \* get_filtered_items: local result
    info,               \* get_filtered_items: local info
    needed_percent,     \* settings.needed_percent, in hundredths
    fpc,                \* position of get_filtered_items
    prices_again,       \* risky_prices: the outcome of a second call
    priced_skin,        \* a Skin after get_buy_price(f), and what the call returned
    unique_keys,        \* the tables reject a second row with the same key
    fetched_stat,       \* table fetched_stat: column fetched of the rows of the minute
    stat_call,          \* add_new_fetched: position and local fetched_info per caller
    item_name_ids,      \* table item_name_ids: the stored identifiers of each item, in row order
    name_call,          \* Market.get_item_name_id: position and locals per caller
    analysis            \* Market.analyze_item: position and locals of a call

vars == <<proxies, settings_delay, age, mpc, round, links, backlog, nworkers, pc, tasks, delay,
          is_active, exits, item, result, rest, i, slept, cls_workers,
          is_redistributing, raises, fails, filtered_items, buy_orders,
          sell_listings, low_percent, high_percent, cancel_percent, opc, idx, calls, qskin, quantity,
          snapshot, prices, queue, filter_result, info, needed_percent, fpc,
          prices_again, priced_skin, unique_keys, fetched_stat, stat_call,
          item_name_ids, name_call, analysis>>

mainVars   == <<mpc, round, links, backlog, nworkers>>
workerVars == <<pc, tasks, delay, is_active, exits, item, result, rest, i, slept>>
classVars  == <<cls_workers, is_redistributing>>
envVars    == <<raises, fails>>
ordersVars == <<filtered_items, buy_orders, sell_listings, low_percent, high_percent,
                cancel_percent, opc, idx, calls>>
inputVars  == <<filtered_items, buy_orders, sell_listings, low_percent, high_percent,
                cancel_percent>>
scannerVars == <<proxies, settings_delay, age, mainVars, workerVars, classVars, envVars>>
calcVars   == <<qskin, quantity, snapshot, prices, queue, filter_result, info,
                needed_percent, fpc>>
statVars   == <<fetched_stat, stat_call>>
nameVars   == <<item_name_ids, name_call>>
callVars   == <<prices_again, priced_skin, unique_keys, statVars, nameVars, analysis>>

\* ------------------------------------------------------------- helpers
Min(a, b) == IF a < b THEN a ELSE b

Range(s) == {s[k] : k \in DOMAIN s}

\* occurrences of x in the list s
Count(s, x) == Cardinality({k \in DOMAIN s : s[k] = x})

RECURSIVE SumLen(_, _)
SumLen(q, S) ==
    IF S = {} THEN 0
    ELSE LET w == CHOOSE x \in S : TRUE IN Len(q[w]) + SumLen(q, S \ {w})

\* occurrences of x in the queues q of the workers S
RECURSIVE QCount(_, _, _)
QCount(q, S, x) ==
    IF S = {} THEN 0
    ELSE LET w == CHOOSE y \in S : TRUE IN Count(q[w], x) + QCount(q, S \ {w}, x)

\* rows of the prices table in table order
AllRows == [k \in 1..MaxItems |-> k]

\* ------------------------------------------------------- get_old_items
IsStale(a, it) == a[it] = "stale"
IsHourOld(a, it) == a[it] \in {"hour", "stale"}

GetOldItems(a) ==
    LET stale(it) == IsStale(a, it)
        old(it)   == IsHourOld(a, it)
        first     == SelectSeq(AllRows, stale)
        cand      == SelectSeq(AllRows, old)
    IN  IF Len(first) < TopUpTarget
        THEN first \o SubSeq(cand, 1, Min(Len(cand), TopUpTarget - Len(first)))
        ELSE first

\* ------------------------------------------------------------ scheduling
\* as WorkerSyncPcs, with redistribute_items a coroutine that awaits
WorkerSyncPcsAwaiting == {}

\* as WorkerSyncPcs, with time.sleep(1) instead of await asyncio.sleep(1) in
\* the two pauses
WorkerSyncPcsSleeping == {"redistribute", "cooldown", "pause"}

\* places of start_working that are inside a plain (non-async) call
WorkerSyncPcs == {"redistribute"}
\* places of the main thread outside loop.run_until_complete, or inside
\* scan() between two awaits
MainSyncPcs   == {"deal", "sleep60", "sleep3600"}

\* the event loop can resume worker w
CanStep(w) ==
    /\ mpc \notin MainSyncPcs
    /\ \A v \in W \ {w} : pc[v] \notin WorkerSyncPcs

\* the main thread can go on
CanStepMain == \A v \in W : pc[v] \notin WorkerSyncPcs

RoundWorkers(r, n) == {w \in W : w[1] = r /\ w[2] <= n}

\* ------------------------------------------------------------------ Init
\* scanner.py builds no Orders object and makes no marketplace call
\* Python's None in a field that holds a number
None == -1

\* set_buy_orders computes no quantity
NoQuantity ==
    /\ qskin = None
    /\ quantity = None

\* risky_prices is not called
NoPrices ==
    /\ snapshot = None
    /\ prices = None

\* get_filtered_items is not called
NoFilter ==
    /\ queue = <<>>
    /\ filter_result = <<>>
    /\ info = None
    /\ needed_percent = None
    /\ fpc = "none"

NoCalc == NoQuantity /\ NoPrices /\ NoFilter

\* no second call of risky_prices and no Skin priced on its own
NoPurity ==
    /\ prices_again = None
    /\ priced_skin = None

\* no call of add_new_fetched is looked at on its own
NoStat ==
    /\ fetched_stat = <<>>
    /\ stat_call = <<>>

\* no call of get_item_name_id is looked at on its own
NoNames ==
    /\ item_name_ids = <<>>
    /\ name_call = <<>>

NoCalls ==
    /\ NoPurity
    /\ unique_keys = TRUE
    /\ NoStat
    /\ NoNames
    /\ analysis = None

NoOrders ==
    /\ filtered_items = <<>>
    /\ buy_orders = <<>>
    /\ sell_listings = <<>>
    /\ low_percent = 100
    /\ high_percent = 100
    /\ cancel_percent = 100
    /\ opc = "none"
    /\ idx = 1
    /\ calls = <<>>

Init ==
    /\ NoOrders
    /\ NoCalc
    /\ NoCalls
    /\ proxies \in 0..MaxProxies
    /\ settings_delay \in Delays
    /\ age \in [Items -> Ages]
    /\ mpc = "start"
    /\ round = 0
    /\ links = <<>>
    /\ backlog = <<>>
    /\ nworkers = 0
    /\ pc = [w \in W |-> "new"]
    /\ tasks = [w \in W |-> <<>>]
    /\ delay = [w \in W |-> DefaultDelay]
    /\ is_active = [w \in W |-> TRUE]
    /\ exits = [w \in W |-> 0]
    /\ item = [w \in W |-> NoItem]
    /\ result = [w \in W |-> 0]
    /\ rest = [w \in W |-> 0]
    /\ i = [w \in W |-> 0]
    /\ slept = [w \in W |-> 0]
    /\ cls_workers = <<>>
    /\ is_redistributing = FALSE
    /\ raises = 0
    /\ fails = 0

\* ------------------------------------------------- scanner.py: main loop
\* while True: run_until_complete(Storage.init_pool()); log; scan()
MainStart ==
    /\ mpc = "start"
    /\ round < MaxRounds
    /\ CanStepMain
    /\ mpc' = "scan_get"
    /\ round' = round + 1
    /\ UNCHANGED <<callVars, calcVars, ordersVars, proxies, settings_delay, age, links, backlog, nworkers, workerVars, classVars, envVars>>

\* scan(): links = await get_old_items(settings); return when empty; log in;
\* one MarketWorker per proxy, not more than links
ScanGetItems ==
    /\ mpc = "scan_get"
    /\ CanStepMain
    /\ LET got == GetOldItems(age)
           n   == Min(proxies, Len(got))
           new == RoundWorkers(round, n)
       IN  /\ backlog' = got
           /\ links' = got
           /\ IF got = <<>>
              THEN /\ mpc' = "sleep3600"
                   /\ nworkers' = 0
                   /\ UNCHANGED <<pc, tasks, delay, is_active>>
              ELSE /\ mpc' = "deal"
                   /\ nworkers' = n
                   /\ pc' = [w \in W |-> IF w \in new THEN "created" ELSE pc[w]]
                   /\ tasks' = [w \in W |-> IF w \in new THEN <<>> ELSE tasks[w]]
                   /\ delay' = [w \in W |-> IF w \in new THEN DefaultDelay ELSE delay[w]]
                   /\ is_active' = [w \in W |-> IF w \in new THEN TRUE ELSE is_active[w]]
    /\ UNCHANGED <<callVars, calcVars, ordersVars, proxies, settings_delay, age, round, exits, item, result, rest, i, slept, classVars, envVars>>

\* as Deal, with the pop outside the for loop: every worker gets links[0]
DealSameItem(q, lnk, r, n) ==
    [w \in W |-> IF w[1] = r /\ w[2] <= Min(n, Len(lnk))
                 THEN q[w] \o <<lnk[1]>>
                 ELSE q[w]]

\* one pass of "for worker in workers: if links: worker.add_tasks([links.pop(0)])"
Deal(q, lnk, r, n) ==
    [w \in W |-> IF w[1] = r /\ w[2] <= Min(n, Len(lnk))
                 THEN q[w] \o <<lnk[w[2]]>>
                 ELSE q[w]]

\* scan(): one iteration of "while links:"
DealPass ==
    /\ mpc = "deal"
    /\ links # <<>>
    /\ tasks' = Deal(tasks, links, round, nworkers)
    /\ links' = SubSeq(links, Min(nworkers, Len(links)) + 1, Len(links))
    /\ UNCHANGED <<callVars, calcVars, ordersVars, proxies, settings_delay, age, mpc, round, backlog, nworkers, pc, delay, is_active,
                   exits, item, result, rest, i, slept, classVars, envVars>>

\* scan(): tasks = [asyncio.create_task(worker.start_working()) ...]; gather
StartWorkers ==
    /\ mpc = "deal"
    /\ links = <<>>
    /\ mpc' = "gather"
    /\ pc' = [w \in W |-> IF w \in RoundWorkers(round, nworkers) THEN "ready" ELSE pc[w]]
    /\ UNCHANGED <<callVars, calcVars, ordersVars, proxies, settings_delay, age, round, links, backlog, nworkers, tasks, delay, is_active,
                   exits, item, result, rest, i, slept, classVars, envVars>>

\* await asyncio.gather(*tasks) returns: every task has finished; scan()
\* returns and its worker objects are dropped
GatherReturn ==
    /\ mpc = "gather"
    /\ CanStepMain
    /\ \A w \in RoundWorkers(round, nworkers) : pc[w] = "done"
    /\ mpc' = "sleep3600"
    /\ delay' = [w \in W |-> IF w \in RoundWorkers(round, nworkers) THEN DefaultDelay ELSE delay[w]]
    /\ UNCHANGED <<callVars, calcVars, ordersVars, proxies, settings_delay, age, round, links, backlog, nworkers, pc, tasks, is_active,
                   exits, item, result, rest, i, slept, classVars, envVars>>

\* await asyncio.gather(*tasks) raises the first exception of a task; the
\* other tasks are not cancelled.  except Exception: log, time.sleep(60)
GatherRaise ==
    /\ mpc = "gather"
    /\ CanStepMain
    /\ \E w \in RoundWorkers(round, nworkers) : pc[w] = "raised"
    /\ mpc' = "sleep60"
    /\ UNCHANGED <<callVars, calcVars, ordersVars, proxies, settings_delay, age, round, links, backlog, nworkers, workerVars, classVars, envVars>>

\* time.sleep(60); continue
Sleep60 ==
    /\ mpc = "sleep60"
    /\ mpc' = "start"
    /\ UNCHANGED <<callVars, calcVars, ordersVars, proxies, settings_delay, age, round, links, backlog, nworkers, workerVars, classVars, envVars>>

\* what an hour does to the age of a row
Older(a) == IF a = "fresh" THEN {"hour"} ELSE IF a = "hour" THEN {"hour", "stale"} ELSE {"stale"}

\* time.sleep(3600)
SleepHour ==
    /\ mpc = "sleep3600"
    /\ mpc' = "start"
    /\ age' \in {a \in [Items -> Ages] : \A it \in Items : a[it] \in Older(age[it])}
    /\ UNCHANGED <<callVars, calcVars, ordersVars, proxies, settings_delay, round, links, backlog, nworkers, workerVars, classVars, envVars>>

Main ==
    \/ MainStart
    \/ ScanGetItems
    \/ DealPass
    \/ StartWorkers
    \/ GatherReturn
    \/ GatherRaise
    \/ Sleep60
    \/ SleepHour

\* ------------------------------------------- MarketWorker.redistribute_items
\* for worker in cls.workers: while worker.tasks: items.append(worker.tasks.pop(0))
RECURSIVE DrainAll(_, _, _, _)
DrainAll(ws, k, q, items) ==
    IF k > Len(ws) THEN [tasks |-> q, items |-> items]
    ELSE DrainAll(ws, k + 1, [q EXCEPT ![ws[k]] = <<>>], items \o q[ws[k]])

\* as DealAll, without the outer "while items": one pass over the workers
RECURSIVE DealAllOnePass(_, _, _, _)
DealAllOnePass(ws, k, q, items) ==
    IF items = <<>> \/ k > Len(ws) THEN q
    ELSE DealAllOnePass(ws, k + 1, [q EXCEPT ![ws[k]] = Append(@, Head(items))], Tail(items))

\* while items: for worker in cls.workers: if items: worker.tasks.append(items.pop(0))
RECURSIVE DealAll(_, _, _, _)
DealAll(ws, k, q, items) ==
    IF items = <<>> THEN q
    ELSE DealAll(ws, (k % Len(ws)) + 1, [q EXCEPT ![ws[k]] = Append(@, Head(items))], Tail(items))

\* if any(worker.is_active for worker in cls.workers) and not cls.is_redistributing
RedistributeGuard(ws, act, flag) ==
    /\ \E k \in DOMAIN ws : act[ws[k]]
    /\ ~flag

\* the queues after a call of redistribute_items
RedistributeItems(ws, q, act, flag) ==
    IF RedistributeGuard(ws, act, flag)
    THEN LET d == DrainAll(ws, 1, q, <<>>) IN DealAll(ws, 1, d.tasks, d.items)
    ELSE q

\* cls.is_redistributing after a call: set and cleared inside the call
FlagAfterRedistribute(ws, act, flag) ==
    IF RedistributeGuard(ws, act, flag) THEN FALSE ELSE flag

\* --------------------------------------------- MarketWorker.start_working
\* "while self.tasks:" then the first await of the body, or the end
LoopTest(q) == IF q = <<>> THEN "done" ELSE "settings"

\* as CooldownRest, one second short
CooldownRestShort(d) == CooldownFactor * d - 1

\* rest = 25 * self.delay
CooldownRest(d) == CooldownFactor * d

\* as PauseRest, one second short
PauseRestShort(d) == d - 1

\* rest = self.delay
PauseRest(d) == d

\* start_working has ended (returned or raised): its locals are gone
EndLocals(w) ==
    /\ exits' = [exits EXCEPT ![w] = 0]
    /\ item' = [item EXCEPT ![w] = NoItem]
    /\ result' = [result EXCEPT ![w] = 0]
    /\ rest' = [rest EXCEPT ![w] = 0]
    /\ i' = [i EXCEPT ![w] = 0]
    /\ slept' = [slept EXCEPT ![w] = 0]

\* the task created by asyncio.create_task runs up to its first await
Start(w) ==
    /\ pc[w] = "ready"
    /\ CanStep(w)
    /\ pc' = [pc EXCEPT ![w] = LoopTest(tasks[w])]
    /\ UNCHANGED <<callVars, calcVars, ordersVars, proxies, settings_delay, age, mainVars, tasks, delay, is_active, exits, item, result,
                   rest, i, slept, classVars, envVars>>

\* as DelayRead, without "self.delay = settings.delay": the worker keeps its delay
DelayKept(cur, s) == cur

\* self.delay = settings.delay
DelayRead(cur, s) == s

\* as NextTask, with self.tasks.pop(): the task assigned last
NextTaskLast(q) == q[Len(q)]

\* item = self.tasks.pop(0)
NextTask(q) == Head(q)

\* settings = await get_settings(self.login); self.delay = settings.delay;
\* item = self.tasks.pop(0) (IndexError on an empty list); then
\* await Market.analyze_item(...)
GetSettings(w) ==
    /\ pc[w] = "settings"
    /\ CanStep(w)
    /\ delay' = [delay EXCEPT ![w] = DelayRead(delay[w], settings_delay)]
    /\ IF tasks[w] = <<>>
       THEN /\ pc' = [pc EXCEPT ![w] = "raised"]
            /\ EndLocals(w)
            /\ UNCHANGED tasks
       ELSE /\ pc' = [pc EXCEPT ![w] = "scan"]
            /\ item' = [item EXCEPT ![w] = NextTask(tasks[w])]
            /\ tasks' = [tasks EXCEPT ![w] = Tail(tasks[w])]
            /\ UNCHANGED <<exits, result, rest, i, slept>>
    /\ UNCHANGED <<callVars, calcVars, ordersVars, proxies, settings_delay, age, mainVars, is_active, classVars, envVars>>

\* get_settings raises (the storage call fails): start_working ends with it
SettingsRaises(w) ==
    /\ pc[w] = "settings"
    /\ CanStep(w)
    /\ raises < MaxRaises
    /\ raises' = raises + 1
    /\ pc' = [pc EXCEPT ![w] = "raised"]
    /\ EndLocals(w)
    /\ UNCHANGED <<callVars, calcVars, ordersVars, proxies, settings_delay, age, mainVars, tasks, delay, is_active, classVars, fails>>

\* analyze_item returned {"success": 429}: is_active = False; exits += 1;
\* rest = 25 * self.delay; await log_async(...)
ScanFails(w) ==
    /\ pc[w] = "scan"
    /\ CanStep(w)
    /\ fails < MaxFails
    /\ fails' = fails + 1
    /\ result' = [result EXCEPT ![w] = REST_NEEDED]
    /\ is_active' = [is_active EXCEPT ![w] = FALSE]
    /\ exits' = [exits EXCEPT ![w] = @ + 1]
    /\ rest' = [rest EXCEPT ![w] = CooldownRest(delay[w])]
    /\ slept' = [slept EXCEPT ![w] = 0]
    /\ pc' = [pc EXCEPT ![w] = "failed"]
    /\ UNCHANGED <<callVars, calcVars, ordersVars, proxies, settings_delay, age, mainVars, tasks, delay, item, i, classVars, raises>>

\* the cooldown is over: self.is_active = True and back to "while self.tasks"
CooldownOver(w) ==
    /\ is_active' = [is_active EXCEPT ![w] = TRUE]
    /\ pc' = [pc EXCEPT ![w] = LoopTest(tasks[w])]
    /\ IF tasks[w] = <<>>
       THEN EndLocals(w)
       ELSE UNCHANGED <<exits, item, result, rest, i, slept>>

\* log_async returned: "for i in range(rest)" starts, its first
\* asyncio.sleep(1) when rest > 0
Failed(w) ==
    /\ pc[w] = "failed"
    /\ CanStep(w)
    /\ IF rest[w] > 0
       THEN /\ pc' = [pc EXCEPT ![w] = "cooldown"]
            /\ i' = [i EXCEPT ![w] = 0]
            /\ UNCHANGED <<is_active, exits, item, result, rest, slept>>
       ELSE CooldownOver(w)
    /\ UNCHANGED <<callVars, calcVars, ordersVars, proxies, settings_delay, age, mainVars, tasks, delay, classVars, envVars>>

\* analyze_item stored the snapshot (set_item_info wrote the row, ts = NOW())
\* and returned {"success": 200}; then await db.add_new_fetched(delay=self.delay)
ScanSucceeds(w) ==
    /\ pc[w] = "scan"
    /\ CanStep(w)
    /\ result' = [result EXCEPT ![w] = SUCCESS]
    /\ age' = [age EXCEPT ![item[w]] = "fresh"]
    /\ slept' = [slept EXCEPT ![w] = 0]
    /\ pc' = [pc EXCEPT ![w] = "fetched"]
    /\ UNCHANGED <<callVars, calcVars, ordersVars, proxies, settings_delay, mainVars, tasks, delay, is_active, exits, item, rest, i,
                   classVars, envVars>>

\* the pause is over: if len(self.tasks) == 0: self.redistribute_items()
AfterPause(q) == IF q = <<>> THEN "redistribute" ELSE "settings"

\* add_new_fetched returned: rest = self.delay; log; "for i in range(rest)"
\* starts, its first asyncio.sleep(1) when rest > 0
Fetched(w) ==
    /\ pc[w] = "fetched"
    /\ CanStep(w)
    /\ rest' = [rest EXCEPT ![w] = PauseRest(delay[w])]
    /\ IF PauseRest(delay[w]) > 0
       THEN /\ pc' = [pc EXCEPT ![w] = "pause"]
            /\ i' = [i EXCEPT ![w] = 0]
       ELSE /\ pc' = [pc EXCEPT ![w] = AfterPause(tasks[w])]
            /\ UNCHANGED i
    /\ UNCHANGED <<callVars, calcVars, ordersVars, proxies, settings_delay, age, mainVars, tasks, delay, is_active, exits, item, result,
                   slept, classVars, envVars>>

\* add_new_fetched raises: start_working ends with it
FetchedRaises(w) ==
    /\ pc[w] = "fetched"
    /\ CanStep(w)
    /\ raises < MaxRaises
    /\ raises' = raises + 1
    /\ pc' = [pc EXCEPT ![w] = "raised"]
    /\ EndLocals(w)
    /\ UNCHANGED <<callVars, calcVars, ordersVars, proxies, settings_delay, age, mainVars, tasks, delay, is_active, classVars, fails>>

\* one asyncio.sleep(1) of "for i in range(rest)" after a failure returns
CooldownTick(w) ==
    /\ pc[w] = "cooldown"
    /\ CanStep(w)
    /\ IF i[w] + 1 < rest[w]
       THEN /\ i' = [i EXCEPT ![w] = @ + 1]
            /\ slept' = [slept EXCEPT ![w] = @ + 1]
            /\ UNCHANGED <<pc, is_active, exits, item, result, rest>>
       ELSE /\ is_active' = [is_active EXCEPT ![w] = TRUE]
            /\ pc' = [pc EXCEPT ![w] = LoopTest(tasks[w])]
            /\ IF tasks[w] = <<>>
               THEN EndLocals(w)
               ELSE /\ slept' = [slept EXCEPT ![w] = @ + 1]
                    /\ UNCHANGED <<exits, item, result, rest, i>>
    /\ UNCHANGED <<callVars, calcVars, ordersVars, proxies, settings_delay, age, mainVars, tasks, delay, classVars, envVars>>

\* one asyncio.sleep(1) of "for i in range(rest)" after a success returns
PauseTick(w) ==
    /\ pc[w] = "pause"
    /\ CanStep(w)
    /\ slept' = [slept EXCEPT ![w] = @ + 1]
    /\ IF i[w] + 1 < rest[w]
       THEN /\ i' = [i EXCEPT ![w] = @ + 1]
            /\ UNCHANGED pc
       ELSE /\ pc' = [pc EXCEPT ![w] = AfterPause(tasks[w])]
            /\ UNCHANGED i
    /\ UNCHANGED <<callVars, calcVars, ordersVars, proxies, settings_delay, age, mainVars, tasks, delay, is_active, exits, item, result,
                   rest, classVars, envVars>>

\* self.redistribute_items() and back to "while self.tasks"
Redistribute(w) ==
    /\ pc[w] = "redistribute"
    /\ tasks' = RedistributeItems(cls_workers, tasks, is_active, is_redistributing)
    /\ is_redistributing' = FlagAfterRedistribute(cls_workers, is_active, is_redistributing)
    /\ pc' = [pc EXCEPT ![w] = LoopTest(tasks'[w])]
    /\ IF tasks'[w] = <<>>
       THEN EndLocals(w)
       ELSE UNCHANGED <<exits, item, result, rest, i, slept>>
    /\ UNCHANGED <<callVars, calcVars, ordersVars, proxies, settings_delay, age, mainVars, delay, is_active, cls_workers, envVars>>

Worker(w) ==
    \/ Start(w)
    \/ GetSettings(w)
    \/ SettingsRaises(w)
    \/ ScanFails(w)
    \/ Failed(w)
    \/ ScanSucceeds(w)
    \/ Fetched(w)
    \/ FetchedRaises(w)
    \/ CooldownTick(w)
    \/ PauseTick(w)
    \/ Redistribute(w)

\* the account's settings row is edited from outside while the scanner runs
\* (a plain call such as redistribute_items takes no time: an edit falls
\* before or after it)
ChangeSettings ==
    /\ \A v \in W : pc[v] \notin WorkerSyncPcs
    /\ settings_delay' \in Delays \ {settings_delay}
    /\ UNCHANGED <<callVars, calcVars, ordersVars, proxies, age, mainVars, workerVars, classVars, envVars>>

Next == Main \/ (\E w \in W : Worker(w)) \/ ChangeSettings

Spec == Init /\ [][Next]_vars

\* every coroutine the event loop can resume is resumed; the main thread goes on
FairSpec == Spec /\ WF_vars(Main) /\ \A w \in W : WF_vars(Worker(w))

TypeOK ==
    /\ proxies \in 0..MaxProxies
    /\ settings_delay \in Delays
    /\ mpc \in {"start", "scan_get", "deal", "gather", "sleep60", "sleep3600"}
    /\ \A w \in W : pc[w] \in {"new", "created", "ready", "settings", "scan", "fetched",
                               "failed", "cooldown", "pause", "redistribute", "done", "raised"}

\* --------------------------------------------------------------------------
\* redistribute_items on its own: a call by a worker whose queue is empty, for
\* every content of MarketWorker.workers and every queue and is_active of the
\* other workers
SeqsUpTo(S, n) == UNION {[1..k -> S] : k \in 0..n}

InitRedist ==
    /\ NoOrders
    /\ NoCalc
    /\ NoCalls
    /\ proxies = MaxProxies
    /\ settings_delay = MaxDelay
    /\ age = [it \in Items |-> "stale"]
    /\ mpc = "gather"
    /\ round = 1
    /\ links = <<>>
    /\ backlog = <<>>
    /\ nworkers = MaxProxies
    /\ cls_workers \in SeqsUpTo(RoundWorkers(1, MaxProxies), MaxReg)
    /\ is_redistributing = FALSE
    /\ \E caller \in RoundWorkers(1, MaxProxies) :
       \E qs \in [RoundWorkers(1, MaxProxies) \ {caller} -> SeqsUpTo(Items, MaxQueue)] :
       \E act \in [RoundWorkers(1, MaxProxies) \ {caller} -> BOOLEAN] :
          /\ pc = [w \in W |-> IF w = caller THEN "redistribute"
                               ELSE IF w[1] = 1 THEN "ready" ELSE "new"]
          /\ tasks = [w \in W |-> IF w \in DOMAIN qs THEN qs[w] ELSE <<>>]
          /\ is_active = [w \in W |-> IF w \in DOMAIN act THEN act[w] ELSE TRUE]
    /\ delay = [w \in W |-> DefaultDelay]
    /\ exits = [w \in W |-> 0]
    /\ item = [w \in W |-> NoItem]
    /\ result = [w \in W |-> 0]
    /\ rest = [w \in W |-> 0]
    /\ i = [w \in W |-> 0]
    /\ slept = [w \in W |-> 0]
    /\ raises = 0
    /\ fails = 0

NextRedist == \E w \in W : Redistribute(w)

SpecRedist == InitRedist /\ [][NextRedist]_vars

\* --------------------------------------------------------------------------
\* Order reconciliation: Orders.set_buy_orders and Orders.cancel_sell_listings
\* (src/src/utils.py), called one after the other by hermes.py on its main
\* thread.  Prices are whole numbers and the settings' factors are hundredths,
\* so "low_percent * buy_price <= price" is low_percent * buy_price <= 100 * price.
\* A step is one iteration of a for loop of the function.
\* steampy's create_buy_order returns a result that the code tests;
\* cancel_buy_order and cancel_sell_order return or raise.
Names         == {1, 2, 3}
BuyPrices     == {10, 200}
PercentsBelow == {5, 50}
OrderPrices   == {9, 11, 12}
Percents      == {90, 110}
\* item.db_info.get('sell_price', 0): 0 when the Order has no db_info (the
\* stored history, buy_orders or sell_orders of the item is empty)
NeededPrices  == {0, 10}

\* the profitable items: cheap ones with quantity 0 or 4, expensive ones
\* with the quantity the cap cuts
SkinRecs    == {r \in [market_name : Names, buy_price : BuyPrices,
                       percent_below : PercentsBelow] :
                   r.buy_price > QuantityCapPrice => r.percent_below = 50}
OrderRecs   == [market_name : Names, price : OrderPrices]
ListingRecs == [price : OrderPrices, needed_price : NeededPrices]

\* the prices table has one row, a trader one buy order per market name
DistinctNames(s) == \A a, b \in DOMAIN s : a # b => s[a].market_name # s[b].market_name

\* order_id of the order at place j of the list
WithIds(s) == [j \in DOMAIN s |-> [market_name |-> s[j].market_name,
                                   price |-> s[j].price, order_id |-> j]]
WithListingIds(s) == [j \in DOMAIN s |-> [price |-> s[j].price,
                                          needed_price |-> s[j].needed_price,
                                          order_id |-> j]]

\* an entry of the call log: the call, its argument (order id or market
\* name), the quantity or the seconds, whether it returned normally (for
\* create_buy_order: with success = 1), and the loop that made it
Call(op, arg, n, ok, at) == [op |-> op, arg |-> arg, n |-> n, ok |-> ok, at |-> at]

\* Orders.is_order_there: the place of the first order for the name, 0 for None
IsOrderThere(orders, name) ==
    IF \E j \in DOMAIN orders : orders[j].market_name = name
    THEN CHOOSE j \in DOMAIN orders :
            /\ orders[j].market_name = name
            /\ \A h \in 1..(j - 1) : orders[h].market_name # name
    ELSE 0

\* Skins.is_skin_there
IsSkinThere(skins, name) == \E j \in DOMAIN skins : skins[j].market_name = name

\* as Quantity, without "if skin.buy_price > 100: quantity = min(quantity, 2)"
QuantityUncapped(skin) ==
    LET pb == IF skin.percent_below > MinPercentBelow
              THEN skin.percent_below ELSE MinPercentBelow
        q  == (QuantityFactor * pb) \div 100
    IN  IF q > 0 THEN q ELSE 0

\* percent_below = max(round(skin.percent_below_market, 2), 0.01);
\* quantity = max(0, int(9 * percent_below)); min(quantity, 2) if buy_price > 100
Quantity(skin) ==
    LET pb == IF skin.percent_below > MinPercentBelow
              THEN skin.percent_below ELSE MinPercentBelow
        q  == (QuantityFactor * pb) \div 100
        q0 == IF q > 0 THEN q ELSE 0
    IN  IF skin.buy_price > QuantityCapPrice THEN Min(q0, QuantityCap) ELSE q0

\* as InTolerance, with the bounds excluded
InToleranceStrict(lo, hi, buy, price) == lo * buy < 100 * price /\ 100 * price < hi * buy

\* settings.low_percent * skin.buy_price <= order.price <= settings.high_percent * skin.buy_price
InTolerance(lo, hi, buy, price) == lo * buy <= 100 * price /\ 100 * price <= hi * buy

\* as Creates, without the test of the quantity
CreatesAlways(q) == TRUE

\* "if quantity:"
Creates(q) == q # 0

\* as AfterCreate, with the failed create logged and the loop going on
AfterCreateGoesOn(ok) == "items"

\* "if result.get('success') != 1: ... return", else the next skin
AfterCreate(ok) == IF ok THEN "items" ELSE "rejected"

\* as CleanupGuard, without "if filtered_items:"
CleanupAlways(skins) == TRUE

\* "if filtered_items:" (Skins.__len__)
CleanupGuard(skins) == Len(skins) > 0

\* time.sleep(5); steam_client.market.create_buy_order(market_name, price, quantity, ...)
CreateCalls(skin, ok) ==
    <<Call("sleep", 0, CreatePause, TRUE, "items"),
      Call("create_buy_order", skin.market_name, Quantity(skin), ok, "items")>>

\* for skin in filtered_items: a live order with a price in the tolerance
KeepOrder ==
    /\ opc = "items"
    /\ idx <= Len(filtered_items)
    /\ LET skin == filtered_items[idx]
           o    == IsOrderThere(buy_orders, skin.market_name)
       IN  /\ o # 0
           /\ InTolerance(low_percent, high_percent, skin.buy_price, buy_orders[o].price)
    /\ idx' = idx + 1
    /\ UNCHANGED <<callVars, calcVars, scannerVars, inputVars, opc, calls>>

\* for skin in filtered_items: a live order with a price out of the tolerance:
\* cancel_buy_order (an exception leaves set_buy_orders), then the create
ReplaceOrder ==
    /\ opc = "items"
    /\ idx <= Len(filtered_items)
    /\ LET skin == filtered_items[idx]
           o    == IsOrderThere(buy_orders, skin.market_name)
       IN  /\ o # 0
           /\ ~InTolerance(low_percent, high_percent, skin.buy_price, buy_orders[o].price)
           /\ \/ /\ calls' = Append(calls, Call("cancel_buy_order", buy_orders[o].order_id,
                                                0, FALSE, "items"))
                 /\ opc' = "raised"
                 /\ UNCHANGED idx
              \/ /\ Creates(Quantity(skin))
                 /\ \E ok \in BOOLEAN :
                       /\ calls' = Append(calls, Call("cancel_buy_order", buy_orders[o].order_id,
                                                      0, TRUE, "items"))
                                   \o CreateCalls(skin, ok)
                       /\ opc' = AfterCreate(ok)
                       /\ idx' = IF AfterCreate(ok) = "items" THEN idx + 1 ELSE idx
              \/ /\ ~Creates(Quantity(skin))
                 /\ calls' = Append(calls, Call("cancel_buy_order", buy_orders[o].order_id,
                                                0, TRUE, "items"))
                 /\ idx' = idx + 1
                 /\ UNCHANGED opc
    /\ UNCHANGED <<callVars, calcVars, scannerVars, inputVars>>

\* for skin in filtered_items: no live order and a quantity: the create
CreateOrder ==
    /\ opc = "items"
    /\ idx <= Len(filtered_items)
    /\ LET skin == filtered_items[idx]
       IN  /\ IsOrderThere(buy_orders, skin.market_name) = 0
           /\ Creates(Quantity(skin))
           /\ \E ok \in BOOLEAN :
                 /\ calls' = calls \o CreateCalls(skin, ok)
                 /\ opc' = AfterCreate(ok)
                 /\ idx' = IF AfterCreate(ok) = "items" THEN idx + 1 ELSE idx
    /\ UNCHANGED <<callVars, calcVars, scannerVars, inputVars>>

\* for skin in filtered_items: no live order and quantity 0
SkipSkin ==
    /\ opc = "items"
    /\ idx <= Len(filtered_items)
    /\ LET skin == filtered_items[idx]
       IN  /\ IsOrderThere(buy_orders, skin.market_name) = 0
           /\ ~Creates(Quantity(skin))
    /\ idx' = idx + 1
    /\ UNCHANGED <<callVars, calcVars, scannerVars, inputVars, opc, calls>>

\* the for loop is over: "if filtered_items:" the cleanup, else the warning
\* and the return
ItemsDone ==
    /\ opc = "items"
    /\ idx > Len(filtered_items)
    /\ opc' = IF CleanupGuard(filtered_items) THEN "cleanup" ELSE "returned"
    /\ idx' = 1
    /\ UNCHANGED <<callVars, calcVars, scannerVars, inputVars, calls>>

\* for order in self.buy_orders: the order's item is not in the filtered
\* list: cancel_buy_order and time.sleep(3); an exception is caught outside
\* the loop, logged, and set_buy_orders returns
CleanupCancel ==
    /\ opc = "cleanup"
    /\ idx <= Len(buy_orders)
    /\ ~IsSkinThere(filtered_items, buy_orders[idx].market_name)
    /\ \/ /\ calls' = calls \o <<Call("cancel_buy_order", buy_orders[idx].order_id, 0, TRUE, "cleanup"),
                                 Call("sleep", 0, CleanupPause, TRUE, "cleanup")>>
          /\ idx' = idx + 1
          /\ UNCHANGED opc
       \/ /\ calls' = Append(calls, Call("cancel_buy_order", buy_orders[idx].order_id,
                                         0, FALSE, "cleanup"))
          /\ opc' = "returned"
          /\ UNCHANGED idx
    /\ UNCHANGED <<callVars, calcVars, scannerVars, inputVars>>

\* for order in self.buy_orders: the order's item is in the filtered list
CleanupKeep ==
    /\ opc = "cleanup"
    /\ idx <= Len(buy_orders)
    /\ IsSkinThere(filtered_items, buy_orders[idx].market_name)
    /\ idx' = idx + 1
    /\ UNCHANGED <<callVars, calcVars, scannerVars, inputVars, opc, calls>>

\* the cleanup loop is over: set_buy_orders returns
CleanupDone ==
    /\ opc = "cleanup"
    /\ idx > Len(buy_orders)
    /\ opc' = "returned"
    /\ UNCHANGED <<callVars, calcVars, scannerVars, inputVars, idx, calls>>

\* current_price > needed_price * self.settings.cancel_sell_listing_percent
TooExpensive(listing, pct) == 100 * listing.price > listing.needed_price * pct

\* for item in self.sell_listings: the price is too high: the log line
\* divides by needed_price (ZeroDivisionError leaves cancel_sell_listings),
\* then cancel_sell_order inside try/except and time.sleep(10)
SellCancel ==
    /\ opc = "listings"
    /\ idx <= Len(sell_listings)
    /\ TooExpensive(sell_listings[idx], cancel_percent)
    /\ IF sell_listings[idx].needed_price = 0
       THEN /\ opc' = "sell_raised"
            /\ UNCHANGED <<idx, calls>>
       ELSE /\ \E ok \in BOOLEAN :
                  calls' = calls \o <<Call("cancel_sell_order", sell_listings[idx].order_id,
                                           0, ok, "listings"),
                                      Call("sleep", 0, SellPause, TRUE, "listings")>>
            /\ idx' = idx + 1
            /\ UNCHANGED opc
    /\ UNCHANGED <<callVars, calcVars, scannerVars, inputVars>>

\* for item in self.sell_listings: the price is not too high
SellKeep ==
    /\ opc = "listings"
    /\ idx <= Len(sell_listings)
    /\ ~TooExpensive(sell_listings[idx], cancel_percent)
    /\ idx' = idx + 1
    /\ UNCHANGED <<callVars, calcVars, scannerVars, inputVars, opc, calls>>

\* the loop over the sell listings is over: cancel_sell_listings returns
SellDone ==
    /\ opc = "listings"
    /\ idx > Len(sell_listings)
    /\ opc' = "sell_returned"
    /\ UNCHANGED <<callVars, calcVars, scannerVars, inputVars, idx, calls>>

\* no scanner runs in the process of hermes.py
ScannerIdle ==
    /\ proxies = 0
    /\ settings_delay = MaxDelay
    /\ age = [it \in Items |-> "fresh"]
    /\ mpc = "start"
    /\ round = 0
    /\ links = <<>>
    /\ backlog = <<>>
    /\ nworkers = 0
    /\ pc = [w \in W |-> "new"]
    /\ tasks = [w \in W |-> <<>>]
    /\ delay = [w \in W |-> DefaultDelay]
    /\ is_active = [w \in W |-> TRUE]
    /\ exits = [w \in W |-> 0]
    /\ item = [w \in W |-> NoItem]
    /\ result = [w \in W |-> 0]
    /\ rest = [w \in W |-> 0]
    /\ i = [w \in W |-> 0]
    /\ slept = [w \in W |-> 0]
    /\ cls_workers = <<>>
    /\ is_redistributing = FALSE
    /\ raises = 0
    /\ fails = 0

\* a call of set_buy_orders, or a call of cancel_sell_listings, for every
\* profitable set, every list of live orders and every setting
InitOrders ==
    /\ ScannerIdle
    /\ NoCalc
    /\ NoCalls
    /\ idx = 1
    /\ calls = <<>>
    /\ \/ /\ opc = "items"
          /\ filtered_items \in {s \in SeqsUpTo(SkinRecs, MaxSkins) : DistinctNames(s)}
          /\ buy_orders \in {WithIds(s) : s \in {t \in SeqsUpTo(OrderRecs, MaxOrders) : DistinctNames(t)}}
          /\ low_percent \in Percents
          /\ high_percent \in Percents
          /\ sell_listings = <<>>
          /\ cancel_percent = 100
       \/ /\ opc = "listings"
          /\ sell_listings \in {WithListingIds(s) : s \in SeqsUpTo(ListingRecs, MaxListings)}
          /\ cancel_percent \in Percents
          /\ filtered_items = <<>>
          /\ buy_orders = <<>>
          /\ low_percent = 100
          /\ high_percent = 100

SetBuyOrders ==
    \/ KeepOrder
    \/ ReplaceOrder
    \/ CreateOrder
    \/ SkipSkin
    \/ ItemsDone
    \/ CleanupCancel
    \/ CleanupKeep
    \/ CleanupDone

CancelSellListings ==
    \/ SellCancel
    \/ SellKeep
    \/ SellDone

NextOrders == SetBuyOrders \/ CancelSellListings

SpecOrders == InitOrders /\ [][NextOrders]_vars

\* --------------------------------------------------------------------------
\* The quantity of a buy order: Orders.set_buy_orders, utils.py:315-319
\* --------------------------------------------------------------------------
\* def get_buy_price(self, percent_below_market: float = 0.5): the quantile the
\* search of get_filtered_items starts from, in hundredths
MaxQuantile == 50

\* skin.buy_price around the price the cap starts at
QuantityPrices == {50, 100, 101, 200}

\* one iteration of "for skin in filtered_items" up to the quantity, for every
\* quantile up to the first one of the search and every price
InitQuantity ==
    /\ ScannerIdle
    /\ NoOrders
    /\ NoPrices
    /\ NoFilter
    /\ NoCalls
    /\ qskin \in [market_name : {1}, buy_price : QuantityPrices,
                  percent_below : 0..MaxQuantile]
    /\ quantity = None

\* percent_below = max(round(skin.percent_below_market, 2), 0.01);
\* quantity = max(0, int(9 * percent_below)); the cap
ComputeQuantity ==
    /\ quantity = None
    /\ quantity' = Quantity(qskin)
    /\ UNCHANGED <<callVars, scannerVars, ordersVars, qskin, snapshot, prices, queue,
                   filter_result, info, needed_percent, fpc>>

NextQuantity == ComputeQuantity

SpecQuantity == InitQuantity /\ [][NextQuantity]_vars

\* --------------------------------------------------------------------------
\* The pricing engine: Storage.risky_prices (async_db.py:158-193); the method
\* Order.risky_prices (utils.py:449-482) has the same body.
\* Prices are in hundredths of the currency unit, fractions in hundredths.
\* --------------------------------------------------------------------------
MaxBuyOrders == 3     \* length of the buy-order list of a snapshot

Undercut        == 3     \* round(single_item_price + 0.03, 2), round(price_to_sell - 0.03, 2)
MaxSellPlace    == 9     \* min([9, len(sell_orders) - 1, int(sales / 35)])
SalesPerPlace   == 35    \* int(sales / 35)
DeepPlace       == 100   \* buy_order_place = 100
DeepFraction    == 10    \* history[int(len(history) * 0.1)]
DefaultFraction == 20    \* lower_border_fl: float = 0.2

Abs(x) == IF x < 0 THEN 0 - x ELSE x

\* sorted(history)
RECURSIVE Sorted(_)
Sorted(s) ==
    IF s = <<>> THEN <<>>
    ELSE LET x     == Head(s)
             tail  == Sorted(Tail(s))
         IN  SelectSeq(tail, LAMBDA y : y < x) \o <<x>> \o
             SelectSeq(tail, LAMBDA y : y >= x)

\* int(len(history) * fraction) for a fraction written as a literal
\* (0.5, 0.2, 0.1): exact for the lengths used here
BorderIndex(n, fraction) == (n * fraction) \div 100

\* as Closer, with "<=": the last of several equally near orders wins
CloserOrEqual(temp_abs, min_abs) == temp_abs <= min_abs

\* "if temp_abs < min_abs:"
Closer(temp_abs, min_abs) == temp_abs < min_abs

\* "for order_place, buy_order in enumerate(buy_orders)": the loop from the
\* order at place j - 1 on; best holds buy_order_place, single_item_price and
\* min_abs
RECURSIVE ScanOrders(_, _, _, _)
ScanOrders(buys, lower_border, j, best) ==
    IF j > Len(buys) THEN best
    ELSE LET temp_abs == Abs(buys[j] - lower_border)
         IN  ScanOrders(buys, lower_border, j + 1,
                        IF Closer(temp_abs, best.min_abs)
                        THEN [place |-> j - 1, price |-> buys[j], min_abs |-> temp_abs]
                        ELSE best)

\* as ScansOrders, without the test of the fraction
ScansAlways(fl) == TRUE

\* "if lower_border_fl > 0:"
ScansOrders(fl) == fl > 0

\* as SellOrderPlace, without the length of the list
SellOrderPlaceUnbounded(sells, sales) ==
    Min(MaxSellPlace, sales \div SalesPerPlace)

\* min([9, len(sell_orders) - 1, int(sales / 35)])
SellOrderPlace(sells, sales) ==
    Min(MaxSellPlace, Min(Len(sells) - 1, sales \div SalesPerPlace))

\* "try: price_to_sell = sell_orders[sell_order_place]; except: price_to_sell
\* = 0"; a negative index counts from the end of the list
PriceToSell(sells, place) ==
    IF place >= 0 /\ place < Len(sells) THEN sells[place + 1]
    ELSE IF place < 0 /\ 0 - place <= Len(sells) THEN sells[Len(sells) + place + 1]
    ELSE 0

\* as MaxOfEmpty, for a max that returns on an empty list
MaxOfEmptyReturns(sells) == FALSE

\* 'max_sell_order': max(sell_orders) raises ValueError on an empty list
MaxOfEmpty(sells) == sells = <<>>

\* 'sell_price': round(price_to_sell - 0.03, 2)
SellPriceOf(price_to_sell) == price_to_sell - Undercut

\* the outcome of risky_prices(history, buy_orders, sell_orders, sales,
\* lower_border_fl): the dictionary, or "error" when the body raised
RiskyPrices(hist, buys, sells, sales, fl) ==
    IF hist = <<>> \/ buys = <<>> THEN [outcome |-> "error"]
    ELSE LET history      == Sorted(hist)
             lower_border == history[BorderIndex(Len(history), fl) + 1]
             first        == [place |-> 0, price |-> buys[1],
                              min_abs |-> Abs(buys[1] - lower_border)]
             chosen       == IF ScansOrders(fl)
                             THEN ScanOrders(buys, lower_border, 1, first)
                             ELSE [place |-> DeepPlace,
                                   price |-> history[BorderIndex(Len(history), DeepFraction) + 1],
                                   min_abs |-> first.min_abs]
             sell_order_place == SellOrderPlace(sells, sales)
             price_to_sell    == PriceToSell(sells, sell_order_place)
         IN  IF MaxOfEmpty(sells) THEN [outcome |-> "error"]
             ELSE [outcome |-> "ok",
                   buy_price |-> chosen.price + Undercut,
                   sell_price |-> SellPriceOf(price_to_sell),
                   buy_order_place |-> chosen.place,
                   sell_order_place |-> sell_order_place]

\* the caller's history list after "history.sort()" in the place of
\* "history = sorted(history)"
HistorySortedInPlace(hist) == Sorted(hist)

\* the caller's history list after the call: "history = sorted(history)"
\* builds a new list and binds the local name to it
HistoryAfterCall(hist) == hist

\* the caller's lists after risky_prices(history, buy_orders, sell_orders, ...):
\* buy_orders and sell_orders are only read (indexed, enumerated, max, len)
ListsAfterCall(snap) == [snap EXCEPT !.history = HistoryAfterCall(@)]

\* as GetBuyPriceAt, without the loop over the buy orders
GetBuyPriceAtFirstOrder(s, h, index) ==
    [s EXCEPT !.percent_below_market = h, !.buy_price = s.buy_orders[1]]

\* the Skin after get_buy_price(percent_below_market), for a skin with sales
\* and buy orders; h is round(percent_below_market, 2) in hundredths and index
\* is int(len(history) * percent_below_market)
GetBuyPriceAt(s, h, index) ==
    LET history      == Sorted(s.history)
        lower_border == history[index + 1]
        first        == [place |-> 0, price |-> s.buy_orders[1],
                         min_abs |-> Abs(s.buy_orders[1] - lower_border)]
        chosen       == IF h > 0
                        THEN ScanOrders(s.buy_orders, lower_border, 1, first)
                        ELSE [place |-> 0,
                              price |-> history[BorderIndex(Len(history), DeepFraction) + 1],
                              min_abs |-> 0]
    IN  [s EXCEPT !.percent_below_market = h, !.buy_price = chosen.price]

\* Skin(market_name, appid, history, buy_orders, sell_orders, sales, ts) built
\* from the data of a snapshot
SkinOf(snap) ==
    [market_name |-> 1, history |-> snap.history, buy_orders |-> snap.buy_orders,
     sell_orders |-> snap.sell_orders, sales |-> snap.sales, age |-> "fresh",
     buy_price |-> None, sell_price |-> None, percent_below_market |-> None,
     decrements |-> 0]

\* the price histories of the calls: none, one sale, five sales out of order,
\* ten sales
Histories == {<<>>, <<10000>>, <<11000, 9000, 10000, 9500, 10500>>,
              [k \in 1..10 |-> 9000 + 100 * k]}

\* the prices of the buy orders, two of them equally far from 95.00
BuyOrderPrices == {9000, 9800, 10000, 10400}

\* the sell-order lists: none, three, ten (get_orders keeps ten), eleven
SellOrderLists == {<<>>, <<10600, 10800, 11200>>,
                   [k \in 1..10 |-> 10500 + 100 * k],
                   [k \in 1..11 |-> 10500 + 100 * k]}

\* the sales counts: places 0, 1 and 11 before the caps
SalesCounts == {0, 40, 400}

\* the lower-border fractions: the deep marker, the smallest step, the
\* default, the first quantile of the filter and the largest step below 1
Fractions == {0, 1, DefaultFraction, MaxQuantile, 99}

\* one call of risky_prices, for every snapshot
InitPrices ==
    /\ ScannerIdle
    /\ NoOrders
    /\ NoQuantity
    /\ NoFilter
    /\ snapshot \in [history : Histories,
                     buy_orders : SeqsUpTo(BuyOrderPrices, MaxBuyOrders),
                     sell_orders : SellOrderLists,
                     sales : SalesCounts,
                     lower_border_fl : Fractions]
    /\ unique_keys = TRUE
    /\ NoStat
    /\ NoNames
    /\ analysis = None
    /\ prices = [outcome |-> "none"]
    /\ prices_again = [outcome |-> "none"]
    /\ priced_skin = [outcome |-> "none"]

\* the call returns its dictionary or raises; snapshot holds the caller's
\* lists
ComputePrices ==
    /\ prices.outcome = "none"
    /\ prices' = RiskyPrices(snapshot.history, snapshot.buy_orders,
                             snapshot.sell_orders, snapshot.sales,
                             snapshot.lower_border_fl)
    /\ snapshot' = ListsAfterCall(snapshot)
    /\ UNCHANGED <<callVars, scannerVars, ordersVars, qskin, quantity, queue,
                   filter_result, info, needed_percent, fpc>>

\* the caller calls risky_prices a second time with the same arguments
ComputePricesAgain ==
    /\ prices.outcome # "none"
    /\ prices_again.outcome = "none"
    /\ prices_again' = RiskyPrices(snapshot.history, snapshot.buy_orders,
                                   snapshot.sell_orders, snapshot.sales,
                                   snapshot.lower_border_fl)
    /\ snapshot' = ListsAfterCall(snapshot)
    /\ UNCHANGED <<priced_skin, unique_keys, statVars, nameVars, analysis, scannerVars, ordersVars, qskin, quantity, prices, queue,
                   filter_result, info, needed_percent, fpc>>

\* Skin(...).get_buy_price(f) on the data of the snapshot, f the snapshot's
\* fraction: the call returns self.buy_price, or raises IndexError on an
\* empty history or an empty buy-order list
SkinGetBuyPrice ==
    /\ priced_skin.outcome = "none"
    /\ priced_skin' =
          IF snapshot.history = <<>> \/ snapshot.buy_orders = <<>>
          THEN [outcome |-> "error"]
          ELSE LET after == GetBuyPriceAt(SkinOf(snapshot), snapshot.lower_border_fl,
                                          BorderIndex(Len(snapshot.history),
                                                      snapshot.lower_border_fl))
               IN  [outcome |-> "ok", returned |-> after.buy_price, skin |-> after]
    /\ UNCHANGED <<prices_again, unique_keys, statVars, nameVars, analysis, scannerVars, ordersVars, calcVars>>

NextPrices ==
    \/ ComputePrices
    \/ ComputePricesAgain
    \/ SkinGetBuyPrice

SpecPrices == InitPrices /\ [][NextPrices]_vars

\* --------------------------------------------------------------------------
\* The filter: get_filtered_items (utils.py:106-133) with Skin.get_buy_price,
\* Skin.get_sell_price, Skin.is_profitable and Skin.is_fetched
\* (utils.py:567-619). One step is one iteration of "while queue".
\* Prices are in hundredths and positive, as the marketplace reports them;
\* quantiles and the needed margin are in hundredths.
\* --------------------------------------------------------------------------
MaxFiltered == 2      \* rows get_all_items returns

SellerShare == 87     \* self.sell_price * 0.87 / self.buy_price >= k
RejectBelow == 5      \* if item.percent_below_market < 0.05

\* int(len(history) * percent_below_market): the argument is the default 0.5
\* or the float item.percent_below_market - 0.01, and for 0.21 - 0.01 and
\* 0.41 - 0.01 the product with 5 or 10 falls just short of the whole number
\* (lists of up to 12 sales)
QuantileIndex(n, h) ==
    IF n \in {5, 10} /\ h \in {20, 40} THEN (n * h) \div 100 - 1
    ELSE (n * h) \div 100

\* Skin.get_buy_price(percent_below_market), for a skin with sales and buy
\* orders
GetBuyPrice(s, h) == GetBuyPriceAt(s, h, QuantileIndex(Len(s.history), h))

\* Skin.get_sell_price
GetSellPrice(s) ==
    IF s.sell_price # None THEN s
    ELSE LET sell_order_place == SellOrderPlace(s.sell_orders, s.sales)
         IN  [s EXCEPT !.sell_price =
                 IF sell_order_place < 0 THEN 0
                 ELSE PriceToSell(s.sell_orders, sell_order_place)]

\* "not self.buy_price", "not self.sell_price"
Unset(v) == v = None \/ v = 0

\* is_profitable calls get_buy_price() for a skin without a buy price:
\* IndexError at history[...] or at self.buy_orders[0]
PricingRaises(s) ==
    /\ Unset(s.buy_price)
    /\ (s.history = <<>> \/ s.buy_orders = <<>>)

\* the skin after the first lines of is_profitable
Priced(s) ==
    LET a == IF Unset(s.buy_price) THEN GetBuyPrice(s, MaxQuantile) ELSE s
    IN  IF Unset(a.sell_price) THEN GetSellPrice(a) ELSE a

\* return self.sell_price * 0.87 / self.buy_price >= k
MarginMeets(s, k) == s.sell_price * SellerShare >= k * s.buy_price

\* as IsFetched, for a filter that does not look at the snapshot's time
IsFetchedAlways(s) == TRUE

\* Skin.is_fetched: datetime.now() - self.ts < timedelta(hours=hours)
IsFetched(s) == s.age # "stale"

\* as Rejects, with a threshold two steps lower
RejectsLater(h) == h < RejectBelow - 2

\* "if item.percent_below_market < 0.05:"
Rejects(h) == h < RejectBelow

\* as NextQuantile, in steps of 0.02
NextQuantileTwo(h) == h - 2

\* item.percent_below_market - 0.01
NextQuantile(h) == h - 1

\* the snapshots of the prices table: history, buy orders, sell orders.
\* One sale and one order at 80.00; three sales out of order with orders at
\* the two lower ones; no buy order; no sell order
FilterSnapshots ==
    {<<<<8000>>, <<8000>>, <<10600>>>>,
     <<<<12000, 8000, 10000>>, <<10000, 8000>>, <<10600>>>>,
     <<<<10000>>, <<>>, <<10600>>>>,
     <<<<10000>>, <<10000>>, <<>>>>}

\* ts against now and settings.hours: within the limit, within it at the first
\* look only, older
FilterAges == {"fresh", "expiring", "stale"}

\* settings.needed_percent
NeededPercents == {103, 120}

\* Skin(market_name, appid, history, buy_orders, sell_orders, sales, ts) of
\* the row at place j; sales is the len(history) set_item_info stored;
\* decrements counts the calls get_buy_price(percent_below_market - 0.01)
NewSkin(j, row) ==
    [market_name |-> j, history |-> row[1][1], buy_orders |-> row[1][2],
     sell_orders |-> row[1][3], sales |-> Len(row[1][1]), age |-> row[2],
     buy_price |-> None, sell_price |-> None, percent_below_market |-> None,
     decrements |-> 0]

\* a call of get_filtered_items for every content of the prices table
InitFilter ==
    /\ ScannerIdle
    /\ NoOrders
    /\ NoQuantity
    /\ NoPrices
    /\ NoCalls
    /\ queue \in {[j \in DOMAIN rows |-> NewSkin(j, rows[j])] :
                    rows \in SeqsUpTo(FilterSnapshots \X FilterAges, MaxFiltered)}
    /\ filter_result = <<>>
    /\ info = [skins |-> 0, not_fetched |-> 0, not_profitable |-> 0, all |-> Len(queue)]
    /\ needed_percent \in NeededPercents
    /\ fpc = "filter"

Popped == fpc = "filter" /\ queue # <<>>

\* as FilterNotFetched, without "info['not_fetched'] += 1"
FilterNotFetchedUncounted ==
    /\ Popped
    /\ ~IsFetched(Head(queue))
    /\ queue' = Tail(queue)
    /\ UNCHANGED <<callVars, scannerVars, ordersVars, qskin, quantity, snapshot, prices,
                   filter_result, info, needed_percent, fpc>>

\* "else: info['not_fetched'] += 1"
FilterNotFetched ==
    /\ Popped
    /\ ~IsFetched(Head(queue))
    /\ queue' = Tail(queue)
    /\ info' = [info EXCEPT !.not_fetched = @ + 1]
    /\ UNCHANGED <<callVars, scannerVars, ordersVars, qskin, quantity, snapshot, prices,
                   filter_result, needed_percent, fpc>>

\* is_profitable raises: the exception leaves get_filtered_items
FilterRaise ==
    /\ Popped
    /\ IsFetched(Head(queue))
    /\ PricingRaises(Head(queue))
    /\ queue' = Tail(queue)
    /\ fpc' = "raised"
    /\ UNCHANGED <<callVars, scannerVars, ordersVars, qskin, quantity, snapshot, prices,
                   filter_result, info, needed_percent>>

\* "result.append(item); info['skins'] += 1"
FilterAccept ==
    /\ Popped
    /\ IsFetched(Head(queue))
    /\ ~PricingRaises(Head(queue))
    /\ MarginMeets(Priced(Head(queue)), needed_percent)
    /\ queue' = Tail(queue)
    /\ filter_result' = Append(filter_result, Priced(Head(queue)))
    /\ info' = [info EXCEPT !.skins = @ + 1]
    /\ UNCHANGED <<callVars, scannerVars, ordersVars, qskin, quantity, snapshot, prices,
                   needed_percent, fpc>>

\* "info['not_profitable'] += 1; continue"
FilterReject ==
    /\ Popped
    /\ IsFetched(Head(queue))
    /\ ~PricingRaises(Head(queue))
    /\ ~MarginMeets(Priced(Head(queue)), needed_percent)
    /\ Rejects(Priced(Head(queue)).percent_below_market)
    /\ queue' = Tail(queue)
    /\ info' = [info EXCEPT !.not_profitable = @ + 1]
    /\ UNCHANGED <<callVars, scannerVars, ordersVars, qskin, quantity, snapshot, prices,
                   filter_result, needed_percent, fpc>>

\* the skin after item.get_buy_price(item.percent_below_market - 0.01); the
\* time of an expiring snapshot runs out before its next turn
Decremented(s) ==
    [GetBuyPrice(s, NextQuantile(s.percent_below_market))
        EXCEPT !.decrements = @ + 1,
               !.age = IF @ = "expiring" THEN "stale" ELSE @]

\* "item.get_buy_price(item.percent_below_market - 0.01); queue.append(item)"
FilterRequeue ==
    /\ Popped
    /\ IsFetched(Head(queue))
    /\ ~PricingRaises(Head(queue))
    /\ ~MarginMeets(Priced(Head(queue)), needed_percent)
    /\ ~Rejects(Priced(Head(queue)).percent_below_market)
    /\ queue' = Append(Tail(queue), Decremented(Priced(Head(queue))))
    /\ UNCHANGED <<callVars, scannerVars, ordersVars, qskin, quantity, snapshot, prices,
                   filter_result, info, needed_percent, fpc>>

\* "while queue" ends: log_sync(...); return result
FilterReturn ==
    /\ fpc = "filter"
    /\ queue = <<>>
    /\ fpc' = "returned"
    /\ UNCHANGED <<callVars, scannerVars, ordersVars, qskin, quantity, snapshot, prices,
                   queue, filter_result, info, needed_percent>>

NextFilter ==
    \/ FilterNotFetched
    \/ FilterRaise
    \/ FilterAccept
    \/ FilterReject
    \/ FilterRequeue
    \/ FilterReturn

SpecFilter == InitFilter /\ [][NextFilter]_vars

\* --------------------------------------------------------------------------
\* Telemetry: Storage.add_new_fetched (async_db.py:296-307), called by every
\* worker after a successful scan (market.py:338-339). The workers are
\* coroutines of one event loop: a call is left at "await self.fetchone" and
\* at "await self.execute", and the calls of other workers run in between.
\* All calls fall into one minute, which starts without a row. A caller
\* stands for a worker at "await db.add_new_fetched(...)"; the scanner's own
\* variables are left at rest.
\* --------------------------------------------------------------------------
MaxCallers == 3       \* coroutines that are inside the same storage method

Callers == 1..MaxCallers

\* fetched_info.get('fetched', 0) + 1
FirstFetched == 1

\* the schema of the tables is not part of the repository: with or without a
\* unique key on fetched_stat.ts; one to three workers call
InitFetched ==
    /\ ScannerIdle
    /\ NoOrders
    /\ NoCalc
    /\ NoPurity
    /\ NoNames
    /\ analysis = None
    /\ unique_keys \in BOOLEAN
    /\ fetched_stat = <<>>
    /\ \E n \in 1..MaxCallers :
          stat_call = [c \in Callers |->
                         [pc |-> IF c <= n THEN "select" ELSE "idle", fetched_info |-> None]]

\* fetched_info = await self.fetchone("SELECT * FROM fetched_stat WHERE ts = %s")
StatSelect(c) ==
    /\ stat_call[c].pc = "select"
    /\ stat_call' = [stat_call EXCEPT ![c] =
                        [pc |-> "write",
                         fetched_info |-> IF fetched_stat = <<>> THEN None
                                          ELSE fetched_stat[1]]]
    /\ UNCHANGED <<fetched_stat, unique_keys, nameVars, analysis, prices_again, priced_skin, scannerVars,
                   ordersVars, calcVars>>

\* "if fetched_info is None: INSERT INTO fetched_stat (ts, fetched, delay)
\* VALUES (ts, 1, delay)": a second row of the minute, or IntegrityError
\* where ts is a unique key
StatInsert(c) ==
    /\ stat_call[c].pc = "write"
    /\ stat_call[c].fetched_info = None
    /\ IF unique_keys /\ fetched_stat # <<>>
       THEN /\ stat_call' = [stat_call EXCEPT ![c].pc = "raised"]
            /\ UNCHANGED fetched_stat
       ELSE /\ stat_call' = [stat_call EXCEPT ![c].pc = "done"]
            /\ fetched_stat' = Append(fetched_stat, FirstFetched)
    /\ UNCHANGED <<unique_keys, nameVars, analysis, prices_again, priced_skin, scannerVars, ordersVars, calcVars>>

\* "else: fetched = fetched_info.get('fetched', 0) + 1; UPDATE fetched_stat
\* SET fetched = %s, delay = %s WHERE ts = %s"
StatUpdate(c) ==
    /\ stat_call[c].pc = "write"
    /\ stat_call[c].fetched_info # None
    /\ fetched_stat' = [k \in DOMAIN fetched_stat |-> stat_call[c].fetched_info + 1]
    /\ stat_call' = [stat_call EXCEPT ![c].pc = "done"]
    /\ UNCHANGED <<unique_keys, nameVars, analysis, prices_again, priced_skin, scannerVars, ordersVars, calcVars>>

NextFetched == \E c \in Callers : StatSelect(c) \/ StatInsert(c) \/ StatUpdate(c)

SpecFetched == InitFetched /\ [][NextFetched]_vars

\* --------------------------------------------------------------------------
\* The identifier cache: Market.get_item_name_id (market.py:111-131) with
\* Storage.get_item_name_id and Storage.add_item_name_id (async_db.py:98-104).
\* analyze_item is its only caller, once per task, so calls of different
\* workers interleave at the awaits (the lookup, the request, the insert) and
\* the calls of one worker follow each other. No code deletes a row of the
\* table.
\* --------------------------------------------------------------------------
MaxCalls == 2         \* calls of get_item_name_id per worker

\* the item_nameid the marketplace page of an item holds
IdOf(n) == 100 + n

\* what session.get(...) and the parsing of the page end with: the identifier,
\* an exception of raise_for_status or of the connection, or no match of
\* MARKET_LOADORDERSPREAD_REGEX (match_id is None: AttributeError)
PageOutcomes == {"id", "http_error", "no_match"}

\* as IsPresent, for a method that does not look at the row it read
IsPresentNever(row) == FALSE

\* "if is_presence:": fetchone returns a dictionary or None
IsPresent(row) == row # None

\* no call running
NoNameCall ==
    [pc |-> "idle", item |-> NoItem, is_presence |-> None, item_name_id |-> None,
     calls |-> 0, stored_at_call |-> FALSE, requests |-> 0, writes |-> 0]

\* every item is cached or not when the workers start
InitNameId ==
    /\ ScannerIdle
    /\ NoOrders
    /\ NoCalc
    /\ NoPurity
    /\ NoStat
    /\ analysis = None
    /\ unique_keys \in BOOLEAN
    /\ item_name_ids \in [Items -> {<<>>, <<7>>}]
    /\ name_call = [c \in Callers |-> NoNameCall]

\* analyze_item calls market.get_item_name_id(market_name, appid);
\* stored_at_call, requests and writes record the call for the claims
NameCall(c, n) ==
    /\ name_call[c].pc \in {"idle", "returned", "raised"}
    /\ name_call[c].calls < MaxCalls
    /\ name_call' = [name_call EXCEPT ![c] =
                        [pc |-> "lookup", item |-> n, is_presence |-> None,
                         item_name_id |-> None, calls |-> name_call[c].calls + 1,
                         stored_at_call |-> item_name_ids[n] # <<>>,
                         requests |-> 0, writes |-> 0]]
    /\ UNCHANGED <<item_name_ids, unique_keys, statVars, analysis, prices_again, priced_skin,
                   scannerVars, ordersVars, calcVars>>

\* is_presence = await db.get_item_name_id(item); "if is_presence: return
\* is_presence['item_name_id']", else the debug log and the request is sent
NameLookup(c) ==
    /\ name_call[c].pc = "lookup"
    /\ LET rows == item_name_ids[name_call[c].item]
           row  == IF rows = <<>> THEN None ELSE rows[1]
       IN  name_call' = [name_call EXCEPT ![c] =
               IF IsPresent(row)
               THEN [@ EXCEPT !.pc = "returned", !.is_presence = row, !.item_name_id = row]
               ELSE [@ EXCEPT !.pc = "request", !.requests = @ + 1]]
    /\ UNCHANGED <<item_name_ids, unique_keys, statVars, analysis, prices_again, priced_skin,
                   scannerVars, ordersVars, calcVars>>

\* the storage call of the lookup fails: "except Exception: log; raise"
NameLookupRaises(c) ==
    /\ name_call[c].pc = "lookup"
    /\ name_call' = [name_call EXCEPT ![c].pc = "raised"]
    /\ UNCHANGED <<item_name_ids, unique_keys, statVars, analysis, prices_again, priced_skin,
                   scannerVars, ordersVars, calcVars>>

\* the response arrives: raise_for_status, re.search, match_id.group(1);
\* then "await db.add_item_name_id(item, item_name_id)" is sent
NameResponse(c) ==
    /\ name_call[c].pc = "request"
    /\ \E page \in PageOutcomes :
          name_call' = [name_call EXCEPT ![c] =
              IF page = "id"
              THEN [@ EXCEPT !.pc = "insert", !.item_name_id = IdOf(name_call[c].item)]
              ELSE [@ EXCEPT !.pc = "raised"]]
    /\ UNCHANGED <<item_name_ids, unique_keys, statVars, analysis, prices_again, priced_skin,
                   scannerVars, ordersVars, calcVars>>

\* "INSERT INTO item_name_ids (item, item_name_id) VALUES (%s, %s)" and
\* "return item_name_id"; where item is a unique key a second row is refused
\* with IntegrityError
NameInsert(c) ==
    /\ name_call[c].pc = "insert"
    /\ LET n == name_call[c].item
       IN  IF unique_keys /\ item_name_ids[n] # <<>>
           THEN /\ name_call' = [name_call EXCEPT ![c].pc = "raised"]
                /\ UNCHANGED item_name_ids
           ELSE /\ name_call' = [name_call EXCEPT ![c].pc = "returned", ![c].writes = @ + 1]
                /\ item_name_ids' = [item_name_ids EXCEPT ![n] =
                                         Append(@, name_call[c].item_name_id)]
    /\ UNCHANGED <<unique_keys, statVars, analysis, prices_again, priced_skin, scannerVars,
                   ordersVars, calcVars>>

NextNameId ==
    \E c \in Callers :
        \/ \E n \in Items : NameCall(c, n)
        \/ NameLookup(c)
        \/ NameLookupRaises(c)
        \/ NameResponse(c)
        \/ NameInsert(c)

SpecNameId == InitNameId /\ [][NextNameId]_vars

\* --------------------------------------------------------------------------
\* One scan: Market.analyze_item (market.py:202-233) with fetch_history
\* (market.py:44-56), get_orders (market.py:142-168) and set_item_info
\* (market.py:170-177), called by a worker at market.py:319, and the worker's
\* failure branch (market.py:321-336). The marketplace and the storage answer
\* each call in one of the ways the code distinguishes.
\* --------------------------------------------------------------------------
OrdersErrorPause == 10   \* await asyncio.sleep(10) after ClientResponseError in get_orders

\* the worker that scans: the first worker of the first round
ScanWorker == <<1, 1>>

\* get_item_name_id returns the identifier (cached, or fetched and stored) or
\* raises: a storage call failed, raise_for_status raised (429 or another
\* status), the connection failed, or the page has no identifier
NameIdOutcomes == {"cached", "fetched", "storage_error", "rate_limit", "network_error",
                   "malformed"}

\* fetch_history returns the sales of the last days; it returns [] when the
\* page has no sales, no "var line1" or no valid JSON, and when the request
\* raised (the except clause of fetch_history)
HistoryOutcomes == {"sales", "no_sales", "malformed", "rate_limit", "network_error"}

\* get_orders returns the dictionary, or None after ClientResponseError (and
\* a pause) or after any other exception (connection, JSON, "success" false)
OrdersOutcomes == {"book", "rate_limit", "network_error", "malformed"}

\* as HistoryPresent, without the test of the history
HistoryPresentAlways(history) == TRUE

\* "if history:"
HistoryPresent(history) == history # "empty"

\* "if orders:"
OrdersPresent(orders) == orders # "None"

\* a worker of round 1 has popped its only task and awaits analyze_item; the
\* call is at "item_name_id = await market.get_item_name_id(...)"
InitAnalyze ==
    /\ NoOrders
    /\ NoCalc
    /\ NoPurity
    /\ NoStat
    /\ NoNames
    /\ unique_keys = TRUE
    /\ proxies = 1
    /\ settings_delay \in Delays
    /\ age = [it \in Items |-> IF it = MaxItems THEN "hour" ELSE "fresh"]
    /\ mpc = "gather"
    /\ round = 1
    /\ links = <<>>
    /\ backlog = <<MaxItems>>
    /\ nworkers = 1
    /\ pc = [w \in W |-> IF w = ScanWorker THEN "scan" ELSE "new"]
    /\ tasks = [w \in W |-> <<>>]
    /\ delay = [w \in W |-> IF w = ScanWorker THEN settings_delay ELSE DefaultDelay]
    /\ is_active = [w \in W |-> TRUE]
    /\ exits = [w \in W |-> 0]
    /\ item = [w \in W |-> IF w = ScanWorker THEN MaxItems ELSE NoItem]
    /\ result = [w \in W |-> 0]
    /\ rest = [w \in W |-> 0]
    /\ i = [w \in W |-> 0]
    /\ slept = [w \in W |-> 0]
    /\ cls_workers = <<>>
    /\ is_redistributing = FALSE
    /\ raises = 0
    /\ fails = 0
    /\ analysis = [pc |-> "name_id", item_name_id |-> None, history |-> "unset",
                   orders |-> "unset", success |-> None, step |-> "none", cause |-> "none",
                   name_fetches |-> 0, history_fetches |-> 0, orders_fetches |-> 0,
                   store_calls |-> 0, stored |-> 0, paused |-> 0]

\* as Return429, with a failed fetch of the order book reported as a success
Return429OrdersPass(a, step, cause) ==
    [a EXCEPT !.pc = "return", !.step = step, !.cause = cause,
              !.success = IF step = "orders" THEN SUCCESS ELSE REST_NEEDED]

\* "return {"success": 429, ...}" after the with block, reached from the
\* except clause and from the two failed tests
Return429(a, step, cause) ==
    [a EXCEPT !.pc = "return", !.success = REST_NEEDED, !.step = step, !.cause = cause]

\* item_name_id = await market.get_item_name_id(market_name, appid); an
\* exception is logged by "except Exception" of analyze_item
AnalyzeNameId ==
    /\ analysis.pc = "name_id"
    /\ \E out \in NameIdOutcomes :
          analysis' =
             IF out \in {"cached", "fetched"}
             THEN [analysis EXCEPT !.pc = "history", !.item_name_id = IdOf(item[ScanWorker]),
                                   !.name_fetches = @ + 1]
             ELSE Return429([analysis EXCEPT !.name_fetches = @ + 1], "name_id", out)
    /\ UNCHANGED <<prices_again, priced_skin, unique_keys, statVars, nameVars, scannerVars,
                   ordersVars, calcVars>>

\* history = await market.fetch_history(...); "if history:"
AnalyzeHistory ==
    /\ analysis.pc = "history"
    /\ \E out \in HistoryOutcomes :
          LET history == IF out = "sales" THEN "sales" ELSE "empty"
              fetched == [analysis EXCEPT !.history = history, !.history_fetches = @ + 1]
          IN  analysis' = IF HistoryPresent(history)
                          THEN [fetched EXCEPT !.pc = "orders"]
                          ELSE Return429(fetched, "history", out)
    /\ UNCHANGED <<prices_again, priced_skin, unique_keys, statVars, nameVars, scannerVars,
                   ordersVars, calcVars>>

\* orders = await market.get_orders(market_name, item_name_id); "if orders:"
AnalyzeOrders ==
    /\ analysis.pc = "orders"
    /\ \E out \in OrdersOutcomes :
          LET orders  == IF out = "book" THEN "book" ELSE "None"
              fetched == [analysis EXCEPT !.orders = orders, !.orders_fetches = @ + 1,
                                          !.paused = IF out = "rate_limit"
                                                     THEN OrdersErrorPause ELSE 0]
          IN  analysis' = IF OrdersPresent(orders)
                          THEN [fetched EXCEPT !.pc = "store"]
                          ELSE Return429(fetched, "orders", out)
    /\ UNCHANGED <<prices_again, priced_skin, unique_keys, statVars, nameVars, scannerVars,
                   ordersVars, calcVars>>

\* await market.set_item_info(...): the row is written with ts = NOW(), or
\* the storage raises and set_item_info logs the exception and returns;
\* then "return {"success": 200}"
AnalyzeStore ==
    /\ analysis.pc = "store"
    /\ \E written \in BOOLEAN :
          /\ analysis' = [analysis EXCEPT !.pc = "return", !.success = SUCCESS,
                                          !.store_calls = @ + 1,
                                          !.stored = IF written THEN @ + 1 ELSE @]
          /\ age' = IF written THEN [age EXCEPT ![item[ScanWorker]] = "fresh"] ELSE age
    /\ UNCHANGED <<prices_again, priced_skin, unique_keys, statVars, nameVars,
                   proxies, settings_delay, mainVars, workerVars, classVars, envVars,
                   ordersVars, calcVars>>

\* the worker receives the non-success result: "if result["success"] != 200"
AnalyzeFailed ==
    /\ analysis.pc = "return"
    /\ analysis.success # SUCCESS
    /\ ScanFails(ScanWorker)

NextAnalyze ==
    \/ AnalyzeNameId
    \/ AnalyzeHistory
    \/ AnalyzeOrders
    \/ AnalyzeStore
    \/ AnalyzeFailed
    \/ Failed(ScanWorker)
    \/ CooldownTick(ScanWorker)

SpecAnalyze == InitAnalyze /\ [][NextAnalyze]_vars

\* ==========================================================================
\* Claims
\* ==========================================================================

\* a worker of the running round
Current(w) == w \in RoundWorkers(round, nworkers)

\* the step is a call of redistribute_items by w
RedistributeStep(w) == pc[w] = "redistribute" /\ pc'[w] # "redistribute"

\* C1: a task whose scan failed is not lost: after the failure it is still in
\* the queue of the worker that scanned it, and once the workers of a round
\* have ended every task of the backlog has been scanned successfully or is
\* still in a queue.
C1_FailedTaskStaysQueued ==
    /\ \A w \in W : pc[w] \in {"failed", "cooldown"} => Count(tasks[w], item[w]) > 0
    /\ mpc = "sleep3600" =>
          \A it \in Range(backlog) : age[it] = "fresh" \/ QCount(tasks, W, it) > 0

\* C2: when a worker's queue is empty after a successful task and another
\* worker of the round still holds tasks, redistribute_items gives the
\* emptied worker a task and it goes on scanning.
C2_EmptiedWorkerGetsTasks ==
    [][\A w \in W :
          (/\ RedistributeStep(w)
           /\ \E v \in W \ {w} : v[1] = w[1] /\ tasks[v] # <<>>)
          => (tasks'[w] # <<>> /\ pc'[w] = "settings")]_vars

\* C3: every task of the backlog is in at most one queue of the round's
\* workers, at most once, and when the dealing has ended in exactly one.
C3_TaskInOneQueueOnce ==
    /\ \A it \in Items : QCount(tasks, RoundWorkers(round, nworkers), it) <= 1
    /\ (mpc = "deal" /\ links = <<>>) =>
          \A it \in Range(backlog) : QCount(tasks, RoundWorkers(round, nworkers), it) = 1

\* C4: a call of redistribute_items leaves the sum of the queue lengths and
\* the number of occurrences of every task in the queues as they were.
C4_RedistributePreserves ==
    [][(\E w \in W : RedistributeStep(w)) =>
          /\ SumLen(tasks', W) = SumLen(tasks, W)
          /\ \A it \in Items : QCount(tasks', W, it) = QCount(tasks, W, it)]_vars

\* C4 witness: a call has moved tasks to the worker that called
C4_Witness == \E w \in W : pc[w] = "settings" /\ tasks[w] # <<>> /\ cls_workers # <<>>

\* C5: redistribution is atomic: at most one call is in progress, while one is
\* in progress the only step taken is that call (no other worker pops a task,
\* none is dealt one by scan()), and is_redistributing is true only inside a
\* call.
C5_RedistributionAtomic ==
    /\ [](\A w, v \in W : (pc[w] = "redistribute" /\ pc[v] = "redistribute") => w = v)
    /\ [](is_redistributing => \E w \in W : pc[w] = "redistribute")
    /\ [][\A w \in W : pc[w] = "redistribute" =>
             /\ pc'[w] # "redistribute"
             /\ \A v \in W \ {w} : pc'[v] = pc[v]
             /\ UNCHANGED mainVars]_vars

\* C5 witness: a call is in progress while another worker of the round waits
\* at an await with tasks in its queue
C5_Witness ==
    \E w, v \in W :
        /\ w # v
        /\ pc[w] = "redistribute"
        /\ pc[v] \in {"ready", "settings", "scan", "fetched", "failed", "cooldown", "pause"}
        /\ tasks[v] # <<>>

\* C6: every scan round runs to completion: a scan() that has started ends,
\* and when it has returned every worker of the round has left its loop with
\* an empty queue.
C6_RoundCompletes ==
    /\ (mpc = "scan_get") ~> (mpc \in {"sleep3600", "sleep60"})
    /\ [](mpc = "sleep3600" => \A w \in W : Current(w) => (pc[w] = "done" /\ tasks[w] = <<>>))

\* C7: scan rounds never overlap: while a scan() runs, every worker of an
\* earlier round has finished.
C7_RoundsNeverOverlap ==
    \A w \in W :
        (w[1] < round /\ mpc \in {"scan_get", "deal", "gather"})
        => pc[w] \in {"new", "done", "raised"}

\* C8: before the workers start, every entry of the backlog is in the queue
\* of one worker of the round (the queues hold each task as often as the
\* backlog does), and the lengths of two queues differ by at most one.
C8_EvenAssignment ==
    (mpc = "deal" /\ links = <<>>) =>
        /\ \A it \in Items :
              QCount(tasks, RoundWorkers(round, nworkers), it) = Count(backlog, it)
        /\ \A w, v \in RoundWorkers(round, nworkers) : Len(tasks[w]) - Len(tasks[v]) <= 1

\* C8 witness: three tasks have been dealt to two workers
C8_Witness == mpc = "deal" /\ links = <<>> /\ nworkers = 2 /\ Len(backlog) = 3

C10_PolitenessPause ==
    [][\A w \in W :
          /\ (pc[w] \in {"fetched", "pause"} /\ pc'[w] \notin {"fetched", "pause", "raised"})
             => slept'[w] = delay[w]
          /\ (pc'[w] = "scan" /\ pc[w] # "scan" /\ result[w] = SUCCESS)
             => slept[w] = delay[w]]_vars

\* C10 witness: a worker scans again after a successful scan and a pause
C10_Witness ==
    \E w \in W : pc[w] = "scan" /\ result[w] = SUCCESS /\ slept[w] >= 1

\* the tasks scan() gave to the worker with index k of n workers, in the order
\* of its add_tasks calls
Assigned(b, n, k) == [j \in 1..((Len(b) - k) \div n + 1) |-> b[k + (j - 1) * n]]

\* s is the end of t
IsSuffix(s, t) == Len(s) <= Len(t) /\ s = SubSeq(t, Len(t) - Len(s) + 1, Len(t))

\* start_working is between the pop of a task and the end of the pause after it
Busy(w) == pc[w] \in {"scan", "fetched", "failed", "cooldown", "pause"}

\* C11: a cooldown or politeness pause suspends only its worker: while one
\* worker is in either pause (and no plain call holds the thread), every
\* other worker that is about to pop a task from a non-empty queue can pop it
\* and every other worker that waits for a scan can receive its result.
C11_PauseSuspendsOnlyItsWorker ==
    \A w, v \in W :
        (/\ w # v
         /\ pc[w] \in {"cooldown", "pause"}
         /\ mpc \notin MainSyncPcs
         /\ \A u \in W : pc[u] # "redistribute")
        => /\ (pc[v] = "settings" /\ tasks[v] # <<>>) => ENABLED GetSettings(v)
           /\ pc[v] = "scan" => ENABLED ScanSucceeds(v)

\* C11 witness: one worker is in the middle of its cooldown while another is
\* about to pop a task
C11_Witness ==
    \E w, v \in W :
        /\ w # v
        /\ pc[w] = "cooldown" /\ slept[w] >= 1
        /\ pc[v] = "settings" /\ tasks[v] # <<>>
        /\ mpc = "gather"

\* C12: a worker scans its tasks one at a time in the order they were
\* assigned: a scan starts only at the top of the loop, with the task at the
\* head of the queue; the queue is always the rest of what scan() assigned to
\* the worker and the task being scanned is the one just before that rest.
C12_SequentialInOrder ==
    /\ [][\A w \in W :
             /\ (pc'[w] = "scan" /\ pc[w] # "scan")
                => /\ pc[w] = "settings"
                   /\ item'[w] = Head(tasks[w])
                   /\ tasks'[w] = Tail(tasks[w])
             /\ (pc[w] = "scan" /\ pc'[w] # "scan") => pc'[w] \in {"fetched", "failed"}]_vars
    /\ [](\A w \in W :
             (Current(w) /\ mpc \in {"gather", "sleep60", "sleep3600", "start"})
             => LET a == Assigned(backlog, nworkers, w[2])
                IN  /\ IsSuffix(tasks[w], a)
                    /\ Busy(w) => item[w] = a[Len(a) - Len(tasks[w])])

\* C12 witness: a worker with three tasks or more scans its second task
C12_Witness ==
    \E w \in W :
        /\ Current(w) /\ nworkers = 1 /\ Len(backlog) >= 3
        /\ pc[w] = "scan"
        /\ Len(tasks[w]) = Len(backlog) - 2
        /\ item[w] = backlog[2] /\ backlog[1] # backlog[2]

\* C13: the delay is read from Settings in the step that pops a task, the
\* worker keeps that value until the pause after the task is over, and the
\* cooldown (25 * delay) or politeness pause (delay) after the task is
\* computed from it.
C13_DelayReadPerTask ==
    /\ [][\A w \in W :
             /\ (pc'[w] = "scan" /\ pc[w] # "scan") => delay'[w] = settings_delay
             /\ Busy(w) => delay'[w] = delay[w]]_vars
    /\ [](\A w \in W :
             /\ pc[w] \in {"failed", "cooldown"} => rest[w] = CooldownFactor * delay[w]
             /\ pc[w] = "pause" => rest[w] = delay[w])

\* C13 witness: the setting was changed during the round: the pause after
\* the worker's previous task took 0 seconds, and the task it scans now was
\* popped with the delay 1 read in that step
C13_Witness ==
    \E w \in W :
        /\ pc[w] = "scan" /\ result[w] = SUCCESS /\ slept[w] = 0
        /\ delay[w] = 1 /\ settings_delay = 1

\* a marketplace-mutating call of the log (not a time.sleep)
Mutating(c) == c.op # "sleep"

\* the calls of a part of the log without the sleeps: call, argument, size
Brief(log) ==
    LET ops == SelectSeq(log, Mutating)
    IN  [j \in DOMAIN ops |-> <<ops[j].op, ops[j].arg, ops[j].n>>]

\* the per-item pass of set_buy_orders is about to handle filtered_items[idx]
AtSkin == opc = "items" /\ idx <= Len(filtered_items)

\* C14: with an empty profitable set set_buy_orders issues no cancel_buy_order
\* and no create_buy_order, whatever live buy orders exist.
C14_EmptySetTouchesNoOrder ==
    filtered_items = <<>> =>
        \A j \in DOMAIN calls : calls[j].op \notin {"cancel_buy_order", "create_buy_order"}

\* C14 witness: set_buy_orders has returned for an empty profitable set and
\* two live buy orders
C14_Witness ==
    opc = "returned" /\ filtered_items = <<>> /\ Len(buy_orders) >= 2

\* C15 as claimed: for a profitable item with a live buy order the order is
\* kept (no call) exactly when low_percent * buy_price <= price <=
\* high_percent * buy_price; otherwise there is exactly one cancel of that
\* order and then a create of size quantity if and only if quantity > 0.
C15_KeepOrReplace ==
    [][(AtSkin /\ IsOrderThere(buy_orders, filtered_items[idx].market_name) # 0) =>
          LET skin == filtered_items[idx]
              o    == buy_orders[IsOrderThere(buy_orders, skin.market_name)]
              new  == SubSeq(calls', Len(calls) + 1, Len(calls'))
          IN  IF /\ low_percent * skin.buy_price <= 100 * o.price
                 /\ 100 * o.price <= high_percent * skin.buy_price
              THEN new = <<>>
              ELSE Brief(new) =
                      <<<<"cancel_buy_order", o.order_id, 0>>>>
                      \o (IF Quantity(skin) > 0
                          THEN <<<<"create_buy_order", skin.market_name, Quantity(skin)>>>>
                          ELSE <<>>)]_vars

\* C15 amended: as C15, where the create follows the cancel if and only if
\* quantity > 0 and the cancel returned; when the cancel raises,
\* set_buy_orders ends with that exception and makes no further call.
C15_KeepOrReplaceIfCancelReturns ==
    [][(AtSkin /\ IsOrderThere(buy_orders, filtered_items[idx].market_name) # 0) =>
          LET skin == filtered_items[idx]
              o    == buy_orders[IsOrderThere(buy_orders, skin.market_name)]
              new  == SubSeq(calls', Len(calls) + 1, Len(calls'))
          IN  IF /\ low_percent * skin.buy_price <= 100 * o.price
                 /\ 100 * o.price <= high_percent * skin.buy_price
              THEN new = <<>>
              ELSE /\ new # <<>>
                   /\ Brief(new) =
                         <<<<"cancel_buy_order", o.order_id, 0>>>>
                         \o (IF Quantity(skin) > 0 /\ new[1].ok
                             THEN <<<<"create_buy_order", skin.market_name, Quantity(skin)>>>>
                             ELSE <<>>)
                   /\ ~new[1].ok => (opc' = "raised" /\ Len(new) = 1)]_vars

\* C15 witness: an order out of the tolerance was cancelled and, five
\* seconds later, created anew
C15_Witness ==
    \E j \in DOMAIN calls :
        /\ j + 2 <= Len(calls)
        /\ calls[j].op = "cancel_buy_order" /\ calls[j].at = "items"
        /\ calls[j + 1].op = "sleep"
        /\ calls[j + 2].op = "create_buy_order"

\* C16: when the profitable set is not empty and the per-item pass ended
\* without a rejected create, set_buy_orders has, when it returns, requested
\* the cancellation of every live buy order whose item is not in the set, and
\* its cleanup has cancelled no order whose item is in the set.
C16_CleanupCancelsOutsiders ==
    (opc = "returned" /\ filtered_items # <<>>) =>
        /\ \A j \in DOMAIN buy_orders :
              ~IsSkinThere(filtered_items, buy_orders[j].market_name)
              => \E h \in DOMAIN calls :
                    /\ calls[h].op = "cancel_buy_order"
                    /\ calls[h].at = "cleanup"
                    /\ calls[h].arg = buy_orders[j].order_id
        /\ \A h \in DOMAIN calls :
              (calls[h].op = "cancel_buy_order" /\ calls[h].at = "cleanup")
              => ~IsSkinThere(filtered_items, buy_orders[calls[h].arg].market_name)

\* C17: for a profitable item without a live buy order the pass issues a
\* create_buy_order of size quantity if and only if quantity > 0, and with
\* quantity 0 it makes no call at all (not even a sleep) for that item.
C17_CreateOnlyWithQuantity ==
    [][(AtSkin /\ IsOrderThere(buy_orders, filtered_items[idx].market_name) = 0) =>
          LET skin == filtered_items[idx]
              new  == SubSeq(calls', Len(calls) + 1, Len(calls'))
          IN  IF Quantity(skin) > 0
              THEN Brief(new) = <<<<"create_buy_order", skin.market_name, Quantity(skin)>>>>
              ELSE new = <<>>]_vars

\* C17 witness: the first profitable item had no live order and quantity 0,
\* and the pass has gone on to the second without a call
C17_Witness ==
    /\ opc = "items" /\ idx = 2 /\ calls = <<>>
    /\ Len(filtered_items) >= 2
    /\ IsOrderThere(buy_orders, filtered_items[1].market_name) = 0
    /\ Quantity(filtered_items[1]) = 0

\* C18: a rejected create_buy_order is the last call of the pass: no further
\* create, no second attempt of the rejected one, and no call that would undo
\* a cancel already issued.
C18_RejectedCreateEndsPass ==
    \A j \in DOMAIN calls :
        (calls[j].op = "create_buy_order" /\ ~calls[j].ok) => j = Len(calls)

\* C18 witness: the create for the first item was rejected after its order
\* had been cancelled, and a second profitable item was never handled
C18_Witness ==
    /\ opc = "rejected" /\ idx = 1 /\ Len(filtered_items) >= 2
    /\ \E j \in DOMAIN calls : calls[j].op = "cancel_buy_order" /\ calls[j].ok

\* C19: no two marketplace-mutating calls of the reconciliation are made back
\* to back: a sleep lies between any two consecutive ones.
C19_CallsArePaced ==
    \A j \in 1..(Len(calls) - 1) : ~(Mutating(calls[j]) /\ Mutating(calls[j + 1]))

\* C20: when cancel_sell_listings has ended, the cancellation of a live sell
\* listing has been requested if and only if its price is greater than its
\* target sell price times cancel_sell_listing_percent.
C20_SellListingsCancelled ==
    opc \in {"sell_returned", "sell_raised"} =>
        \A j \in DOMAIN sell_listings :
            (100 * sell_listings[j].price > sell_listings[j].needed_price * cancel_percent)
            <=> \E h \in DOMAIN calls :
                   /\ calls[h].op = "cancel_sell_order"
                   /\ calls[h].arg = sell_listings[j].order_id

\* C21: the quantity set_buy_orders computes is max(0, floor(9 * quantile)),
\* cut to 2 when buy_price > 100, and for every quantile up to 0.5 it is one of
\* 0..4.
C21_QuantityFormula ==
    quantity # None =>
        LET f        == (9 * qskin.percent_below) \div 100
            floor9   == IF f > 0 THEN f ELSE 0
            expected == IF qskin.buy_price > 100 /\ floor9 > 2 THEN 2 ELSE floor9
        IN  /\ quantity = expected
            /\ quantity \in 0..4

\* the cap acted: the quantile 0.5 of an item dearer than 100 gave 2, not 4
C21_Witness ==
    /\ quantity = 2
    /\ qskin.buy_price > 100
    /\ qskin.percent_below = MaxQuantile

\* v is the element at place k (from 0) of the list s sorted upwards
IsAtSortedPlace(s, k, v) ==
    /\ v \in Range(s)
    /\ Cardinality({j \in DOMAIN s : s[j] < v}) <= k
    /\ Cardinality({j \in DOMAIN s : s[j] <= v}) > k

\* the calls of risky_prices that returned a dictionary
Returned == prices.outcome = "ok"

\* C26: with a positive fraction and non-empty lists risky_prices picks the
\* buy order nearest to sorted(history)[floor(len * fraction)], the first of
\* several equally near ones; buy_order_place is its index and buy_price its
\* price plus 0.03; the history 90, 95, 100, 105, 110 with the orders 98, 100,
\* 104 and the fraction 0.2 gives place 0 and 98.03.
C26_NearestBuyOrder ==
    (Returned /\ snapshot.lower_border_fl > 0) =>
        LET buys  == snapshot.buy_orders
            hist  == snapshot.history
            place == prices.buy_order_place
            border == CHOOSE b \in Range(hist) :
                          IsAtSortedPlace(hist, (Len(hist) * snapshot.lower_border_fl) \div 100, b)
            dist(j) == IF buys[j] < border THEN border - buys[j] ELSE buys[j] - border
        IN  /\ place + 1 \in DOMAIN buys
            /\ \A m \in DOMAIN buys : dist(place + 1) <= dist(m)
            /\ \A m \in 1..place : dist(m) > dist(place + 1)
            /\ prices.buy_price = buys[place + 1] + 3
            /\ (/\ hist = <<11000, 9000, 10000, 9500, 10500>>
                /\ buys = <<9800, 10000, 10400>>
                /\ snapshot.lower_border_fl = 20)
               => (place = 0 /\ prices.buy_price = 9803)

\* of two orders equally near to 95.00 the earlier one was chosen, and it is
\* not the first of the list
C26_Witness ==
    /\ Returned
    /\ snapshot.lower_border_fl = 20
    /\ snapshot.history = <<11000, 9000, 10000, 9500, 10500>>
    /\ snapshot.buy_orders = <<10400, 10000, 9000>>
    /\ prices.buy_order_place = 1
    /\ prices.buy_price = 10003

\* C27: with non-empty sell orders and sales >= 0 risky_prices returns
\* sell_order_place = min(9, len(sell_orders) - 1, floor(sales / 35)), which
\* lies in 0..min(9, len(sell_orders) - 1) and is an index of sell_orders.
C27_SellOrderPlace ==
    Returned =>
        LET n     == Len(snapshot.sell_orders)
            byS   == snapshot.sales \div 35
            least == IF 9 <= n - 1 /\ 9 <= byS THEN 9
                     ELSE IF n - 1 <= byS THEN n - 1 ELSE byS
        IN  /\ prices.sell_order_place = least
            /\ prices.sell_order_place >= 0
            /\ prices.sell_order_place <= 9
            /\ prices.sell_order_place <= n - 1
            /\ prices.sell_order_place + 1 \in DOMAIN snapshot.sell_orders

\* the length of the list decided the place: three sell orders, 400 sales
C27_Witness ==
    /\ Returned
    /\ Len(snapshot.sell_orders) = 3
    /\ snapshot.sales = 400
    /\ prices.sell_order_place = 2

\* C28: risky_prices returns sell_price = sell_orders[sell_order_place] - 0.03
\* when the place is an index of the list (106, 108, 112 with 40 sales give
\* 107.97), and returns sell_price = 0 when it is not.
C28_SellPriceOrZero ==
    (prices.outcome # "none" /\ snapshot.history # <<>> /\ snapshot.buy_orders # <<>>) =>
        LET sells == snapshot.sell_orders
            byS   == snapshot.sales \div 35
            place == IF 9 <= Len(sells) - 1 /\ 9 <= byS THEN 9
                     ELSE IF Len(sells) - 1 <= byS THEN Len(sells) - 1 ELSE byS
        IN  /\ Returned
            /\ IF place + 1 \in DOMAIN sells
               THEN prices.sell_price = sells[place + 1] - 3
               ELSE prices.sell_price = 0
            /\ (sells = <<10600, 10800, 11200>> /\ snapshot.sales = 40)
               => prices.sell_price = 10797

\* C29: with the fraction 0 risky_prices returns buy_order_place = 100 and
\* buy_price = sorted(history)[floor(len(history) * 0.1)] + 0.03, whatever the
\* buy orders are.
C29_DeepPrice ==
    (Returned /\ snapshot.lower_border_fl = 0) =>
        /\ prices.buy_order_place = 100
        /\ IsAtSortedPlace(snapshot.history, (Len(snapshot.history) * 10) \div 100,
                           prices.buy_price - 3)

\* the second lowest of ten sales was taken although a buy order stands at
\* the lowest one
C29_Witness ==
    /\ Returned
    /\ snapshot.lower_border_fl = 0
    /\ Len(snapshot.history) = 10
    /\ snapshot.buy_orders = <<9000, 10400>>
    /\ prices.buy_order_place = 100
    /\ prices.buy_price = 9203

\* C30: risky_prices fails, and returns no dictionary, whenever history,
\* buy_orders or sell_orders is empty.
C30_EmptyInputFails ==
    (/\ prices.outcome # "none"
     /\ \/ snapshot.history = <<>>
        \/ snapshot.buy_orders = <<>>
        \/ snapshot.sell_orders = <<>>)
    => prices.outcome = "error"

\* a call with sales and buy orders but no sell order raised
C30_Witness ==
    /\ prices.outcome = "error"
    /\ snapshot.history # <<>>
    /\ snapshot.buy_orders # <<>>
    /\ snapshot.sell_orders = <<>>

\* the skins get_filtered_items still holds: queued or accepted
Held == Range(queue) \cup Range(filter_result)

\* the margin test of skin s at the quantile h
MarginAt(s, h) ==
    LET p == GetSellPrice([GetBuyPrice(s, h) EXCEPT !.sell_price = None])
    IN  p.sell_price * 87 >= needed_percent * p.buy_price

\* C22, as claimed: get_filtered_items always terminates, and no item is
\* decremented more than 45 times.
C22_AtMost45Decrements ==
    \A s \in Held : s.decrements <= 45

\* the iterations an item can still cause: one for each quantile from its
\* own down to 0.00
Weight(s) ==
    IF s.percent_below_market = None THEN 52 ELSE s.percent_below_market + 1

RECURSIVE SumWeights(_)
SumWeights(q) == IF q = <<>> THEN 0 ELSE Weight(Head(q)) + SumWeights(Tail(q))

\* a bound on the steps get_filtered_items still takes
StepsLeft == (IF fpc = "filter" THEN 1 ELSE 0) + SumWeights(queue)

\* C22, amended: get_filtered_items always terminates (every iteration lowers
\* a bound on the iterations left, which never falls below 0), and no item is
\* decremented more than 46 times (once at each quantile 0.50, ..., 0.05).
C22_TerminatesWithin46 ==
    /\ [](/\ \A s \in Held : s.decrements <= 46
          /\ StepsLeft >= 0
          /\ fpc = "filter" => StepsLeft > 0)
    /\ [][StepsLeft' < StepsLeft]_vars

\* an item was decremented at every quantile from 0.50 to 0.05 and waits at
\* 0.04 for its last test
C22_Witness ==
    \E s \in Range(queue) : s.decrements = 46 /\ s.percent_below_market = 4

\* C23: for a fresh item the quantiles 0.50, 0.49, ... are tried downwards in
\* steps of 0.01; the item is accepted at the largest quantile whose margin
\* meets the threshold and carries that quantile; it is rejected as not
\* profitable only when the test fails at a quantile below 0.05.
C23_FirstPassingQuantile ==
    /\ [](/\ \A s \in Range(filter_result) :
                /\ s.percent_below_market \in 0..50
                /\ MarginAt(s, s.percent_below_market)
                /\ \A h \in (s.percent_below_market + 1)..50 : ~MarginAt(s, h)
          /\ \A s \in Range(queue) :
                s.percent_below_market # None =>
                    /\ s.percent_below_market = 50 - s.decrements
                    /\ \A h \in (s.percent_below_market + 1)..50 : ~MarginAt(s, h))
    /\ [][info'.not_profitable # info.not_profitable =>
             /\ queue # <<>>
             /\ Head(queue).age # "stale"
             /\ Head(queue).percent_below_market \in 0..4
             /\ ~MarginAt(Head(queue), Head(queue).percent_below_market)]_vars

\* an item was accepted at 0.33 after 17 decrements
C23_Witness ==
    \E s \in Range(filter_result) :
        s.percent_below_market = 33 /\ s.decrements = 17

\* C24: an item whose snapshot is older than settings.hours when the filter
\* looks at it is not in the result: it is counted as not fetched and is not
\* queued again.
C24_StaleNeverAccepted ==
    /\ [](\A s \in Range(filter_result) : s.age # "stale")
    /\ [][(fpc = "filter" /\ queue # <<>> /\ Head(queue).age = "stale") =>
             /\ filter_result' = filter_result
             /\ queue' = Tail(queue)
             /\ info'.not_fetched = info.not_fetched + 1]_vars

\* of two items one was counted as not fetched and the other one accepted
\* after 17 decrements
C24_Witness ==
    /\ fpc = "returned"
    /\ info.all = 2
    /\ info.not_fetched = 1
    /\ info.skins = 1
    /\ \E s \in Range(filter_result) : s.age = "fresh" /\ s.decrements = 17

\* C25: an item whose snapshot has an empty history, buy-order or sell-order
\* list is skipped: get_filtered_items still returns, with every item decided.
C25_EmptySnapshotSkipped ==
    /\ fpc # "raised"
    /\ fpc = "returned" => info.skins + info.not_fetched + info.not_profitable = info.all

\* C40: when get_filtered_items returns, every item of the input is counted
\* in exactly one of skins, not_fetched and not_profitable, the result has
\* `skins` entries and no item is in it twice.
C40_EveryItemCountedOnce ==
    /\ [](fpc = "returned" =>
            /\ info.skins + info.not_fetched + info.not_profitable = info.all
            /\ Len(filter_result) = info.skins
            /\ \A j, k \in DOMAIN filter_result :
                  filter_result[j].market_name = filter_result[k].market_name => j = k)
    /\ [][(fpc = "filter" /\ fpc' # "raised") =>
            /\ info'.all = info.all
            /\ info'.skins + info'.not_fetched + info'.not_profitable + Len(queue')
                  = info.skins + info.not_fetched + info.not_profitable + Len(queue)]_vars

\* C40 witness: the filter returned for two items, one not fetched and one
\* rejected after it was queued again 46 times
C40_Witness ==
    /\ fpc = "returned"
    /\ info = [skins |-> 0, not_fetched |-> 1, not_profitable |-> 1, all |-> 2]
    /\ filter_result = <<>>

\* C34: a worker's exits counts the failures since its last success: after a
\* successful task it is 0.
C34_ExitsCountsConsecutiveFailures ==
    \A w \in W : (pc[w] \in {"fetched", "pause"} /\ result[w] = SUCCESS) => exits[w] = 0

\* C39: the backlog get_old_items returns holds every item at most once, and
\* so does the set of queues scan() deals it to.
C39_BacklogHasNoDuplicates ==
    /\ \A it \in Items : Count(backlog, it) <= 1
    /\ mpc \in {"deal", "gather"} =>
          \A it \in Items : QCount(tasks, RoundWorkers(round, nworkers), it)
                              + Count(links, it) <= 1

C37_FilterPriceIsBorderScan ==
    (prices.outcome = "ok" /\ priced_skin.outcome # "none") =>
        /\ priced_skin.outcome = "ok"
        /\ priced_skin.returned + Undercut = prices.buy_price

\* C37 witness: both calls returned for the fraction 0.99, where the nearest
\* buy order is the third one
C37_Witness ==
    /\ prices.outcome = "ok"
    /\ priced_skin.outcome = "ok"
    /\ snapshot.lower_border_fl = 99
    /\ prices.buy_order_place = 2
    /\ priced_skin.returned # snapshot.buy_orders[1]

\* C36: when the calls of add_new_fetched of one minute have ended, whatever
\* their interleaving, every call has succeeded and the minute has exactly one
\* row, with fetched equal to the number of calls.
C36_TelemetryCountsEveryCall ==
    (\A c \in Callers : stat_call[c].pc \in {"idle", "done", "raised"}) =>
        /\ \A c \in Callers : stat_call[c].pc # "raised"
        /\ Len(fetched_stat) = 1
        /\ fetched_stat[1] = Cardinality({c \in Callers : stat_call[c].pc = "done"})

\* C32: get_item_name_id sends a request for an item only after a lookup that
\* found no identifier for it, and writes to the table only after a request;
\* a call made when an identifier of the item is stored (after an earlier
\* call for the item has succeeded) sends no request, writes nothing and
\* returns the stored identifier.
C32_NetworkOnlyOnCacheMiss ==
    \A c \in Callers :
        LET call == name_call[c]
        IN  /\ call.requests <= 1 /\ call.writes <= 1
            /\ call.requests > 0 => (call.is_presence = None /\ ~call.stored_at_call)
            /\ call.writes > 0 => call.requests > 0
            /\ call.stored_at_call =>
                  /\ call.requests = 0
                  /\ call.writes = 0
                  /\ call.pc \in {"lookup", "returned", "raised"}
                  /\ call.pc = "returned" =>
                        call.item_name_id = item_name_ids[call.item][1]

\* C32 witness: one call has fetched and stored the identifier of an item, a
\* call of another worker made after it has returned that identifier without
\* a request
C32_Witness ==
    \E c, d \in Callers :
        /\ c # d
        /\ name_call[c].pc = "returned" /\ name_call[c].writes = 1
        /\ name_call[d].pc = "returned" /\ name_call[d].stored_at_call
        /\ name_call[d].item = name_call[c].item
        /\ name_call[d].item_name_id = IdOf(name_call[c].item)
        /\ name_call[d].requests = 0

\* the three conditions of a stored snapshot
Resolved == analysis.item_name_id # None
Scanned  == Resolved /\ analysis.history = "sales" /\ analysis.orders = "book"

C35_SameCooldownForEveryCause ==
    /\ []((analysis.pc = "return" /\ analysis.cause # "none") =>
              analysis.success = REST_NEEDED)
    /\ [][(pc[ScanWorker] = "scan" /\ pc'[ScanWorker] # "scan") =>
             /\ analysis.success = REST_NEEDED
             /\ pc'[ScanWorker] = "failed"
             /\ ~is_active'[ScanWorker]
             /\ rest'[ScanWorker] = CooldownFactor * delay[ScanWorker]
             /\ exits'[ScanWorker] = exits[ScanWorker] + 1]_vars
    /\ [][(pc[ScanWorker] = "cooldown" /\ pc'[ScanWorker] # "cooldown") =>
             slept[ScanWorker] + 1 = CooldownFactor * delay[ScanWorker]]_vars

\* C35 witness: the order book answered with an HTTP error and the worker is
\* in the last second of a cooldown of 25 seconds
C35_Witness ==
    /\ analysis.step = "orders" /\ analysis.cause = "rate_limit"
    /\ pc[ScanWorker] = "cooldown"
    /\ rest[ScanWorker] = CooldownFactor
    /\ slept[ScanWorker] = CooldownFactor - 1
    /\ exits[ScanWorker] = 1

\* C38: analyze_item returns the success outcome only when the snapshot was
\* stored.
C38_SuccessOnlyIfStored ==
    analysis.success = SUCCESS => analysis.stored = 1

====
